---- MODULE Spec2Model ----
(***************************************************************************)
(* Verification model of the spellcheck_poc message-routing and caching    *)
(* core.                                                                   *)
(*                                                                         *)
(*   SpecRouter  : backend/handlers/eda_framework.py  (WebSocketEventRouter*)
(*                 and BaseEventHandler.handle_message)                    *)
(*   SpecLegacy  : event_handlers.py (the root-level router variant with   *)
(*                 subscription enforcement and auto-subscribe)            *)
(*   SpecConn    : connect / disconnect / subscribe / unsubscribe of the   *)
(*                 backend router and of the root-level router             *)
(*   SpecCache   : main.py (spell_check_line and its cache, the custom     *)
(*                 dictionary, the engine preference)                      *)
(*   SpecDict    : backend/spellcheckers/factory.py and the backend        *)
(*                 DictionaryEventHandler                                  *)
(*   SpecSpellcheck : the backend SpellcheckEventHandler over the factory  *)
(*                 and the root-level one over main.spell_check_line       *)
(*   SpecPrediction : the backend PredictionEventHandler                   *)
(*   SpecFactory : direct calls of the factory and of a provider           *)
(*                                                                         *)
(* Strings that the code inspects character by character are sequences of  *)
(* one-character strings; opaque tokens are plain strings.                 *)
(***************************************************************************)
EXTENDS Integers, Sequences, FiniteSets, TLC

-----------------------------------------------------------------------------
(* Universes of the router models *)

\* message_key strings for which handlers exist in the repository
Keys == {"spellcheck_request", "dictionary_request"}

\* message.get("message_key") is falsy: the field is absent, null or ""
NoKey == "<absent>"

\* a present message_key that is a JSON array or object: truthy, unhashable
UnhashableKey == "<json-array>"

KeyValues == Keys \cup {NoKey, UnhashableKey}

\* message.get("correlation_id") is None
NoCid == "<null>"

\* a correlation_id that is a JSON object, not a string
ObjCid == "<json-object>"

\* correlation ids a client supplies as strings
ClientCids == {"c1"}

CidValues == ClientCids \cup {NoCid, ObjCid}

\* the value of default_factory=lambda: str(uuid.uuid4())
GenCid == "<uuid4>"

\* available_handlers is not part of the response
NoList == {"<no-list>"}

\* handler instances; h1 and h2 are two handlers for the same key
HandlerIds == {"h1", "h2", "h3"}

handler_message_key(h) ==
    IF h = "h3" THEN "dictionary_request" ELSE "spellcheck_request"

Connections == {"ws1", "ws2"}

Topics == Keys

\* how _process_message ends for a validated message
Outcomes == {"ok", "fail", "raise"}

\* a raw message: the fields route_message and handle_message look at.
\* fields = TRUE when every field the schema requires (lines, operation, ...)
\* is present with the declared type.
Messages ==
    [message_key : KeyValues, correlation_id : CidValues, fields : BOOLEAN]

NoHandler == "<none>"

NoRequest == [message_key |-> "<no-request>", correlation_id |-> NoCid,
              fields |-> FALSE]

NoResponse == [kind |-> "none", message_key |-> "", success |-> FALSE,
               correlation_id |-> NoCid, available_handlers |-> NoList,
               source |-> "none"]

-----------------------------------------------------------------------------
VARIABLES
    \* backend WebSocketEventRouter
    handlers,          \* self._handlers : message_key -> handler
    subscriptions,     \* self._subscriptions : websocket -> set of topics
    websockets,        \* self._websockets
    request,           \* the last message given to route_message
    response,          \* what that call returned (or that it raised)
    invoked,           \* the handler whose handle_message ran, or NoHandler
    processed,         \* whether _process_message ran in that call
    unanswered,        \* keys that were answered "No handler registered"
    \* root-level WebSocketEventRouter (event_handlers.py)
    l_handlers,        \* self.handlers
    l_subscriptions,   \* self.subscriptions : websocket -> topics
    l_request,
    l_response,
    l_invoked,
    l_processed,
    \* main.py
    spell_cache,           \* rows of the spell_cache table
    user_dictionary,       \* words of the user_dictionary table
    user_settings,         \* value of the spell_checker_engine setting
    HUNSPELL_AVAILABLE,    \* `hunspell_checker and HUNSPELL_AVAILABLE`
    last,                  \* the last main.py operation and what it returned
    \* backend SpellCheckerFactory and DictionaryEventHandler
    instances,             \* self._instances : (type, language) -> provider
    initialized_providers, \* self._initialized_providers
    default_language,      \* self._default_language
    d_last,                \* the last factory operation or dictionary
                           \* request, and the response to the request
    \* the spellcheck and prediction event handlers
    s_response,            \* backend SpellcheckEventHandler: the last request
                           \* and the response to it
    l_s_response,          \* root-level SpellcheckEventHandler: the same
    p_response,            \* backend PredictionEventHandler: the same
    \* connection managers and broadcasts
    active_connections,    \* backend WebSocketConnectionManager
    b_last,                \* the last broadcast: who was sent to, who failed
    h_response,            \* the last health request and the response to it
    \* websocket endpoints
    accepted,              \* backend: connections whose receive loop runs
    l_accepted,            \* main.py: the same
    l_active_connections,  \* main.py: manager.active_connections
    e_last,                \* the last frame an endpoint received, and what
                           \* became of it
    f_response,            \* backend: the last spell-check frame, in the
                           \* canonical or the legacy format, and its answer
    \* main.py: spell_check_line calls in flight
    tasks,
    \* engines called directly
    x_last,                \* the last call of an engine and what it returned
    \* backend SpellCheckEngineFactory
    initialized_engines,   \* cls._initialized_engines : name -> engine
    engines_created,       \* engine objects constructed so far, by name
    engines_initialized,   \* engine objects whose initialize() succeeded
    g_last,                \* the last get_engine call and what it returned
    \* backend router: a broadcast_to_subscribers call in flight
    b_task

routerVars == <<handlers, subscriptions, websockets, request, response,
                invoked, processed, unanswered>>

legacyVars == <<l_handlers, l_subscriptions, l_request, l_response,
                l_invoked, l_processed>>

cacheVars == <<spell_cache, user_dictionary, user_settings,
               HUNSPELL_AVAILABLE, last>>

dictVars == <<instances, initialized_providers, default_language, d_last>>

handlerVars == <<s_response, l_s_response, p_response>>

serverVars == <<active_connections, b_last, h_response>>

endpointVars == <<accepted, l_accepted, l_active_connections, e_last,
                  f_response>>

engineVars == <<initialized_engines, engines_created, engines_initialized,
                g_last>>

callVars == <<x_last, engineVars, b_task>>

taskVars == <<tasks, callVars>>

vars == <<routerVars, legacyVars, cacheVars, dictVars, handlerVars,
          serverVars, endpointVars, taskVars>>

-----------------------------------------------------------------------------
(* Responses *)

Response(key, ok, cid, src) ==
    [kind |-> "response", message_key |-> key, success |-> ok,
     correlation_id |-> cid, available_handlers |-> NoList, source |-> src]

Raised(exc) ==
    [kind |-> "raised", message_key |-> exc, success |-> FALSE,
     correlation_id |-> NoCid, available_handlers |-> NoList,
     source |-> "exception"]

response_key(key) ==
    IF key = "spellcheck_request" THEN "spellcheck_response"
    ELSE "dictionary_response"

error_key(key) ==
    IF key = "spellcheck_request" THEN "spellcheck_request_error"
    ELSE "dictionary_request_error"

\* pydantic validation of the request model: required fields present and
\* correlation_id an Optional[str]
schema_valid(m) == m.fields /\ m.correlation_id # ObjCid

\* BaseEventRequest.correlation_id of the validated backend message:
\* the client's value, or a generated uuid4 when the field is absent
validated_correlation_id(m) ==
    IF m.correlation_id = NoCid THEN GenCid ELSE m.correlation_id

\* BaseEventResponse(...) in the except branch of handle_message: the
\* response model validates correlation_id: Optional[str] itself
BaseEventResponse(key, m) ==
    IF m.correlation_id = ObjCid THEN Raised("ValidationError")
    ELSE Response(key, FALSE, m.correlation_id, "handle_message")

\* the typed response a backend handler's _process_message builds
process_message(h, m, outcome) ==
    Response(response_key(handler_message_key(h)), outcome = "ok",
             validated_correlation_id(m), h)

\* BaseEventHandler.handle_message
handle_message(h, m, outcome) ==
    IF schema_valid(m) /\ outcome # "raise"
    THEN process_message(h, m, outcome)
    ELSE BaseEventResponse(error_key(handler_message_key(h)), m)

\* route_result with the unknown-key answer of the root-level router, which
\* does not enumerate the registered keys
route_result_nolist(hs, m, outcome) ==
    IF m.message_key = NoKey
    THEN Response("error", FALSE, m.correlation_id, "router")
    ELSE IF m.message_key = UnhashableKey
    THEN Raised("TypeError")
    ELSE IF m.message_key \notin DOMAIN hs
    THEN Response("error", FALSE, m.correlation_id, "router")
    ELSE LET r == handle_message(hs[m.message_key], m, outcome)
         IN  IF r.kind = "raised"
             THEN Response("error", FALSE, m.correlation_id, "router")
             ELSE r

\* the value WebSocketEventRouter.route_message returns, or the exception
\* that leaves it
route_result(hs, m, outcome) ==
    IF m.message_key = NoKey
    THEN Response("error", FALSE, m.correlation_id, "router")
    ELSE IF m.message_key = UnhashableKey
    THEN Raised("TypeError")
    ELSE IF m.message_key \notin DOMAIN hs
    THEN [Response("error", FALSE, m.correlation_id, "router")
            EXCEPT !.available_handlers = DOMAIN hs]
    ELSE LET r == handle_message(hs[m.message_key], m, outcome)
         IN  IF r.kind = "raised"
             THEN Response("error", FALSE, m.correlation_id, "router")
             ELSE r

-----------------------------------------------------------------------------
(* Backend router operations *)

\* a register_handler that forgets the handlers of the other keys
register_handler_alone(h) ==
    /\ handlers' = [k \in {handler_message_key(h)} |-> h]
    /\ UNCHANGED <<subscriptions, websockets, request, response, invoked,
                   processed, unanswered>>
    /\ UNCHANGED <<legacyVars, cacheVars, dictVars, handlerVars,
                   serverVars, endpointVars, taskVars>>

register_handler(h) ==
    /\ handlers' = [k \in DOMAIN handlers \cup {handler_message_key(h)} |->
                      IF k = handler_message_key(h) THEN h ELSE handlers[k]]
    /\ UNCHANGED <<subscriptions, websockets, request, response, invoked,
                   processed, unanswered>>
    /\ UNCHANGED <<legacyVars, cacheVars, dictVars, handlerVars,
                   serverVars, endpointVars, taskVars>>

unregister_handler(k) ==
    /\ handlers' = [x \in DOMAIN handlers \ {k} |-> handlers[x]]
    /\ UNCHANGED <<subscriptions, websockets, request, response, invoked,
                   processed, unanswered>>
    /\ UNCHANGED <<legacyVars, cacheVars, dictVars, handlerVars,
                   serverVars, endpointVars, taskVars>>

connect(ws) ==
    /\ websockets' = websockets \cup {ws}
    /\ subscriptions' = [w \in DOMAIN subscriptions \cup {ws} |->
                           IF w = ws THEN {} ELSE subscriptions[w]]
    /\ UNCHANGED <<handlers, request, response, invoked, processed,
                   unanswered>>
    /\ UNCHANGED <<legacyVars, cacheVars, dictVars, handlerVars,
                   serverVars, endpointVars, taskVars>>

\* a disconnect that forgets the connection and keeps its topics
disconnect_keeping_topics(ws) ==
    /\ websockets' = websockets \ {ws}
    /\ UNCHANGED <<handlers, subscriptions, request, response, invoked,
                   processed, unanswered>>
    /\ UNCHANGED <<legacyVars, cacheVars, dictVars, handlerVars,
                   serverVars, endpointVars, taskVars>>

disconnect(ws) ==
    /\ websockets' = websockets \ {ws}
    /\ subscriptions' = [w \in DOMAIN subscriptions \ {ws} |->
                           subscriptions[w]]
    /\ UNCHANGED <<handlers, request, response, invoked, processed,
                   unanswered>>
    /\ UNCHANGED <<legacyVars, cacheVars, dictVars, handlerVars,
                   serverVars, endpointVars, taskVars>>

\* a subscribe that replaces the topics of the connection
subscribe_replacing(ws, topics) ==
    /\ subscriptions' = [w \in DOMAIN subscriptions \cup {ws} |->
                           IF w = ws THEN topics ELSE subscriptions[w]]
    /\ UNCHANGED <<handlers, websockets, request, response, invoked,
                   processed, unanswered>>
    /\ UNCHANGED <<legacyVars, cacheVars, dictVars, handlerVars,
                   serverVars, endpointVars, taskVars>>

subscribe(ws, topics) ==
    /\ subscriptions' = [w \in DOMAIN subscriptions \cup {ws} |->
                           IF w = ws
                           THEN (IF ws \in DOMAIN subscriptions
                                 THEN subscriptions[ws] ELSE {}) \cup topics
                           ELSE subscriptions[w]]
    /\ UNCHANGED <<handlers, websockets, request, response, invoked,
                   processed, unanswered>>
    /\ UNCHANGED <<legacyVars, cacheVars, dictVars, handlerVars,
                   serverVars, endpointVars, taskVars>>

unsubscribe(ws, topics) ==
    /\ subscriptions' = [w \in DOMAIN subscriptions |->
                           IF w = ws THEN subscriptions[w] \ topics
                           ELSE subscriptions[w]]
    /\ UNCHANGED <<handlers, websockets, request, response, invoked,
                   processed, unanswered>>
    /\ UNCHANGED <<legacyVars, cacheVars, dictVars, handlerVars,
                   serverVars, endpointVars, taskVars>>

route_message(m, ws, outcome) ==
    LET dispatched == m.message_key \in DOMAIN handlers
    IN  /\ request' = [message_key |-> m.message_key,
                       correlation_id |-> m.correlation_id,
                       fields |-> m.fields, outcome |-> outcome, ws |-> ws]
        /\ response' = route_result(handlers, m, outcome)
        /\ invoked' = IF dispatched THEN handlers[m.message_key]
                      ELSE NoHandler
        /\ processed' = (dispatched /\ schema_valid(m))
        /\ unanswered' = IF m.message_key \in Keys /\ ~dispatched
                         THEN unanswered \cup {m.message_key}
                         ELSE unanswered
        /\ UNCHANGED <<handlers, subscriptions, websockets>>
        /\ UNCHANGED <<legacyVars, cacheVars, dictVars, handlerVars,
                       serverVars, endpointVars, taskVars>>

-----------------------------------------------------------------------------
(* Root-level router, event_handlers.py *)

\* BaseEventResponse(...) of event_handlers.py: a pydantic model whose
\* correlation_id is an Optional[str]
l_BaseEventResponse(key, m, src) ==
    IF m.correlation_id = ObjCid THEN Raised("ValidationError")
    ELSE Response(key, FALSE, m.correlation_id, src)

l_error_key(key) ==
    IF key = "spellcheck_request" THEN "spellcheck_request_response"
    ELSE "dictionary_request_response"

\* BaseEventHandler.handle_event
handle_event(h, m, outcome) ==
    IF schema_valid(m) /\ outcome # "raise"
    THEN Response(response_key(handler_message_key(h)), outcome = "ok",
                  m.correlation_id, h)
    ELSE l_BaseEventResponse(l_error_key(handler_message_key(h)), m,
                             "handle_event")

\* the message reaches the handler: the key is bound and the connection is
\* either unknown to the router or subscribed to the key
l_dispatched(m, ws) ==
    /\ m.message_key \in DOMAIN l_handlers
    /\ ws \in DOMAIN l_subscriptions => m.message_key \in l_subscriptions[ws]

l_route_result(m, ws, outcome) ==
    IF m.message_key = NoKey
    THEN l_BaseEventResponse("error", m, "router")
    ELSE IF m.message_key = UnhashableKey
    THEN Raised("TypeError")
    ELSE IF ~l_dispatched(m, ws)
    THEN l_BaseEventResponse("error", m, "router")
    ELSE handle_event(l_handlers[m.message_key], m, outcome)

l_register_handler(h) ==
    /\ l_handlers' = [k \in DOMAIN l_handlers \cup {handler_message_key(h)} |->
                        IF k = handler_message_key(h) THEN h
                        ELSE l_handlers[k]]
    /\ UNCHANGED <<l_subscriptions, l_request, l_response, l_invoked,
                   l_processed>>
    /\ UNCHANGED <<routerVars, cacheVars, dictVars, handlerVars,
                   serverVars, endpointVars, taskVars>>

\* self.subscriptions[websocket] is a list kept free of duplicates; its
\* order is never read, so it is a set here
l_subscribe(ws, topics) ==
    /\ l_subscriptions' =
          [w \in DOMAIN l_subscriptions \cup {ws} |->
              IF w = ws
              THEN (IF ws \in DOMAIN l_subscriptions
                    THEN l_subscriptions[ws] ELSE {}) \cup topics
              ELSE l_subscriptions[w]]
    /\ UNCHANGED <<l_handlers, l_request, l_response, l_invoked,
                   l_processed>>
    /\ UNCHANGED <<routerVars, cacheVars, dictVars, handlerVars,
                   serverVars, endpointVars, taskVars>>

\* unsubscribe(websocket, topics): the entry is dropped once it is empty
l_unsubscribe(ws, topics) ==
    /\ l_subscriptions' =
          IF ws \notin DOMAIN l_subscriptions THEN l_subscriptions
          ELSE IF l_subscriptions[ws] \ topics = {}
          THEN [w \in DOMAIN l_subscriptions \ {ws} |-> l_subscriptions[w]]
          ELSE [l_subscriptions EXCEPT ![ws] = @ \ topics]
    /\ UNCHANGED <<l_handlers, l_request, l_response, l_invoked,
                   l_processed>>
    /\ UNCHANGED <<routerVars, cacheVars, dictVars, handlerVars,
                   serverVars, endpointVars, taskVars>>

l_disconnect(ws) ==
    /\ l_subscriptions' =
          [w \in DOMAIN l_subscriptions \ {ws} |-> l_subscriptions[w]]
    /\ UNCHANGED <<l_handlers, l_request, l_response, l_invoked,
                   l_processed>>
    /\ UNCHANGED <<routerVars, cacheVars, dictVars, handlerVars,
                   serverVars, endpointVars, taskVars>>

l_route_message(m, ws, outcome) ==
    /\ l_request' = m
    /\ l_response' = l_route_result(m, ws, outcome)
    /\ l_invoked' = IF m.message_key \in Keys /\ l_dispatched(m, ws)
                    THEN l_handlers[m.message_key] ELSE NoHandler
    /\ l_processed' = (m.message_key \in Keys /\ l_dispatched(m, ws)
                       /\ schema_valid(m))
    \* await self.subscribe(websocket, [message_key]) for a connection
    \* that has no subscription entry
    /\ l_subscriptions' =
          IF m.message_key \in DOMAIN l_handlers
             /\ ws \notin DOMAIN l_subscriptions
          THEN [w \in DOMAIN l_subscriptions \cup {ws} |->
                  IF w = ws THEN {m.message_key} ELSE l_subscriptions[w]]
          ELSE l_subscriptions
    /\ UNCHANGED l_handlers
    /\ UNCHANGED <<routerVars, cacheVars, dictVars, handlerVars,
                   serverVars, endpointVars, taskVars>>

-----------------------------------------------------------------------------
(* Broadcasts and the backend connection manager.  `failing` is the set of *)
(* connections for which `await websocket.send_text(json.dumps(message))`   *)
(* raises.                                                                  *)

\* exclude=None, exclude_websocket=None
NoWebSocket == "<no-websocket>"

NoBroadcast == [by |-> "none", topic |-> "none", exclude |-> NoWebSocket,
                attempted |-> {}, failed |-> {}]

\* a broadcast that keeps the connections whose send failed
broadcast_keeping_failed(message_key, failing) ==
    LET reached == {w \in DOMAIN subscriptions :
                       message_key \in subscriptions[w]}
    IN  /\ b_last' = [by |-> "broadcast_to_subscribers",
                      topic |-> message_key, exclude |-> NoWebSocket,
                      attempted |-> reached,
                      failed |-> reached \cap failing]
        /\ UNCHANGED <<routerVars, active_connections, h_response>>
        /\ UNCHANGED <<legacyVars, cacheVars, dictVars, handlerVars,
                       endpointVars, taskVars>>

\* WebSocketEventRouter.broadcast_to_subscribers(message, message_key)
broadcast_to_subscribers(message_key, failing) ==
    LET reached == {w \in DOMAIN subscriptions :
                       message_key \in subscriptions[w]}
        disconnected == reached \cap failing
    IN  /\ b_last' = [by |-> "broadcast_to_subscribers",
                      topic |-> message_key, exclude |-> NoWebSocket,
                      attempted |-> reached, failed |-> disconnected]
        \* for ws in disconnected: self.disconnect(ws)
        /\ websockets' = websockets \ disconnected
        /\ subscriptions' = [w \in DOMAIN subscriptions \ disconnected |->
                               subscriptions[w]]
        /\ UNCHANGED <<handlers, request, response, invoked, processed,
                       unanswered, active_connections,
                       h_response>>
        /\ UNCHANGED <<legacyVars, cacheVars, dictVars, handlerVars,
                       endpointVars, taskVars>>

\* event_handlers.py: broadcast_to_topic(topic, message, exclude_websocket)
broadcast_to_topic(topic, exclude_websocket, failing) ==
    LET reached == {w \in DOMAIN l_subscriptions :
                       topic \in l_subscriptions[w] /\ w # exclude_websocket}
        disconnected_websockets == reached \cap failing
    IN  /\ b_last' = [by |-> "broadcast_to_topic", topic |-> topic,
                      exclude |-> exclude_websocket, attempted |-> reached,
                      failed |-> disconnected_websockets]
        /\ l_subscriptions' =
              [w \in DOMAIN l_subscriptions \ disconnected_websockets |->
                  l_subscriptions[w]]
        /\ UNCHANGED <<l_handlers, l_request, l_response, l_invoked,
                       l_processed, active_connections,
                       h_response>>
        /\ UNCHANGED <<routerVars, cacheVars, dictVars, handlerVars,
                       endpointVars, taskVars>>

\* WebSocketConnectionManager.connect: the connection is registered with
\* the manager and with the event router
manager_connect(ws) ==
    /\ active_connections' = active_connections \cup {ws}
    /\ websockets' = websockets \cup {ws}
    /\ subscriptions' = [w \in DOMAIN subscriptions \cup {ws} |->
                           IF w = ws THEN {} ELSE subscriptions[w]]
    /\ UNCHANGED <<handlers, request, response, invoked, processed,
                   unanswered, b_last, h_response>>
    /\ UNCHANGED <<legacyVars, cacheVars, dictVars, handlerVars,
                   endpointVars, taskVars>>

\* WebSocketConnectionManager.disconnect
manager_disconnect(ws) ==
    /\ active_connections' = active_connections \ {ws}
    /\ websockets' = websockets \ {ws}
    /\ subscriptions' = [w \in DOMAIN subscriptions \ {ws} |->
                           subscriptions[w]]
    /\ UNCHANGED <<handlers, request, response, invoked, processed,
                   unanswered, b_last, h_response>>
    /\ UNCHANGED <<legacyVars, cacheVars, dictVars, handlerVars,
                   endpointVars, taskVars>>

\* WebSocketConnectionManager.broadcast(message, exclude): every active
\* connection but the excluded one, whatever it subscribed to
manager_broadcast(exclude, failing) ==
    LET reached == active_connections \ {exclude}
        disconnected == reached \cap failing
    IN  /\ b_last' = [by |-> "broadcast", topic |-> "none",
                      exclude |-> exclude, attempted |-> reached,
                      failed |-> disconnected]
        \* for ws in disconnected: self.disconnect(ws)
        /\ active_connections' = active_connections \ disconnected
        /\ websockets' = websockets \ disconnected
        /\ subscriptions' = [w \in DOMAIN subscriptions \ disconnected |->
                               subscriptions[w]]
        /\ UNCHANGED <<handlers, request, response, invoked, processed,
                       unanswered, h_response>>
        /\ UNCHANGED <<legacyVars, cacheVars, dictVars, handlerVars,
                       endpointVars, taskVars>>

-----------------------------------------------------------------------------
(* The websocket endpoints: what becomes of a connection and of the answer  *)
(* when a frame arrives.  The effect of a request on the factory, the cache *)
(* and the dictionary is that of the handler actions; these actions follow  *)
(* the connection.                                                          *)

\* a frame of the backend endpoint, by the branch of the loop that takes it:
\*   not_json    json.loads(data) raises
\*   not_object  a JSON array, string or number: message_dict.get raises
\*   unknown     an object without message_key and with an unknown type
FrameKinds == {"not_json", "not_object", "subscribe", "unsubscribe", "eda",
               "spell_check_request", "prediction_request", "unknown"}

Frames ==
    {[kind |-> k, message |-> NoRequest, topics |-> {}, outcome |-> "ok"] :
        k \in {"not_json", "not_object", "spell_check_request",
               "prediction_request", "unknown"}}
    \cup {[kind |-> k, message |-> NoRequest, topics |-> {t},
           outcome |-> "ok"] :
             k \in {"subscribe", "unsubscribe"}, t \in Topics}
    \cup {[kind |-> "eda", message |-> m, topics |-> {}, outcome |-> o] :
             m \in Messages, o \in Outcomes}

NoFrame == [app |-> "none", ws |-> NoWebSocket, kind |-> "none",
            answer |-> "none", delivered |-> FALSE, open |-> FALSE]

\* json.dumps(message) of send_personal_message: the dicts the router and
\* the endpoint build hold strings, booleans and lists; the .dict() of a
\* BaseEventResponse holds its timestamp, a datetime, which json.dumps
\* rejects with TypeError
serializable(r) == r.source = "router"

\* websocket_endpoint up to the receive loop
e_open(ws) ==
    /\ ws \notin accepted
    /\ accepted' = accepted \cup {ws}
    /\ active_connections' = active_connections \cup {ws}
    /\ websockets' = websockets \cup {ws}
    /\ subscriptions' = [w \in DOMAIN subscriptions \cup {ws} |->
                           IF w = ws THEN {} ELSE subscriptions[w]]
    /\ e_last' = [app |-> "backend", ws |-> ws, kind |-> "open",
                  answer |-> "connection_status", delivered |-> TRUE,
                  open |-> TRUE]
    /\ UNCHANGED <<handlers, request, response, invoked, processed,
                   unanswered, b_last, h_response, l_accepted,
                   l_active_connections, f_response>>
    /\ UNCHANGED <<legacyVars, cacheVars, dictVars, handlerVars, taskVars>>

\* one round of the receive loop of the backend websocket_endpoint
e_receive(ws, frame) ==
    LET r == route_result(handlers, frame.message, frame.outcome)
        \* an exception reaches `except Exception`: the error is sent, the
        \* connection is unregistered and the endpoint returns
        raises == \/ frame.kind \in {"not_json", "not_object"}
                  \/ frame.kind = "eda" /\ r.kind = "raised"
        sent == raises \/ frame.kind # "eda" \/ serializable(r)
        \* manager.disconnect(websocket), from the except branch of the
        \* endpoint or from that of send_personal_message
        dropped == raises \/ ~sent
        subscribed ==
            IF frame.kind = "subscribe"
            THEN [w \in DOMAIN subscriptions \cup {ws} |->
                     IF w = ws
                     THEN (IF ws \in DOMAIN subscriptions
                           THEN subscriptions[ws] ELSE {}) \cup frame.topics
                     ELSE subscriptions[w]]
            ELSE IF frame.kind = "unsubscribe"
            THEN [w \in DOMAIN subscriptions |->
                     IF w = ws THEN subscriptions[w] \ frame.topics
                     ELSE subscriptions[w]]
            ELSE subscriptions
    IN  /\ ws \in accepted
        /\ accepted' = IF raises THEN accepted \ {ws} ELSE accepted
        /\ active_connections' = IF dropped THEN active_connections \ {ws}
                                 ELSE active_connections
        /\ websockets' = IF dropped THEN websockets \ {ws} ELSE websockets
        /\ subscriptions' =
              IF dropped
              THEN [w \in DOMAIN subscribed \ {ws} |-> subscribed[w]]
              ELSE subscribed
        /\ e_last' =
              [app |-> "backend", ws |-> ws, kind |-> frame.kind,
               answer |->
                   IF raises \/ frame.kind = "unknown" THEN "error"
                   ELSE IF frame.kind \in {"subscribe", "unsubscribe"}
                   THEN "subscription_confirmed"
                   ELSE IF frame.kind = "spell_check_request"
                   THEN "spell_check_response"
                   ELSE IF frame.kind = "prediction_request"
                   THEN "prediction_response"
                   ELSE r.message_key,
               delivered |-> sent, open |-> ~raises]
        /\ UNCHANGED <<handlers, request, response, invoked, processed,
                       unanswered, b_last, h_response, l_accepted,
                       l_active_connections, f_response>>
        /\ UNCHANGED <<legacyVars, cacheVars, dictVars, handlerVars,
                       taskVars>>

\* receive_text raises WebSocketDisconnect: the client went away
e_close(ws) ==
    /\ ws \in accepted
    /\ accepted' = accepted \ {ws}
    /\ active_connections' = active_connections \ {ws}
    /\ websockets' = websockets \ {ws}
    /\ subscriptions' = [w \in DOMAIN subscriptions \ {ws} |->
                           subscriptions[w]]
    /\ e_last' = [app |-> "backend", ws |-> ws, kind |-> "close",
                  answer |-> "none", delivered |-> FALSE, open |-> FALSE]
    /\ UNCHANGED <<handlers, request, response, invoked, processed,
                   unanswered, b_last, h_response, l_accepted,
                   l_active_connections, f_response>>
    /\ UNCHANGED <<legacyVars, cacheVars, dictVars, handlerVars, taskVars>>

\* a frame of the main.py endpoint: its "type" (no_type: an object without
\* one) and whether it has the fields its branch reads with message[...]
\* or requires to be non-empty
l_FrameKinds == {"not_json", "not_object", "no_type", "edit",
                 "prediction_request", "spell_check_request", "add_word",
                 "unknown"}

\* main.py websocket_endpoint up to the receive loop: manager.connect
l_e_open(ws) ==
    /\ ws \notin l_active_connections
    /\ l_accepted' = l_accepted \cup {ws}
    /\ l_active_connections' = l_active_connections \cup {ws}
    /\ e_last' = [app |-> "root", ws |-> ws, kind |-> "open",
                  answer |-> "none", delivered |-> FALSE, open |-> TRUE]
    /\ UNCHANGED <<accepted, f_response, serverVars>>
    /\ UNCHANGED <<routerVars, legacyVars, cacheVars, dictVars, handlerVars,
                   taskVars>>

\* one round of the receive loop of main.py's websocket_endpoint; only
\* WebSocketDisconnect is caught around the loop
l_e_receive(ws, kind, complete) ==
    LET raises == \/ kind \in {"not_json", "not_object", "no_type"}
                  \/ kind = "edit" /\ ~complete
        answered == /\ ~raises
                    /\ \/ kind \in {"edit", "prediction_request",
                                     "spell_check_request"}
                       \/ kind = "add_word" /\ complete
    IN  /\ ws \in l_accepted
        /\ l_accepted' = IF raises THEN l_accepted \ {ws} ELSE l_accepted
        /\ e_last' = [app |-> "root", ws |-> ws, kind |-> kind,
                      answer |-> IF answered THEN "response" ELSE "none",
                      delivered |-> answered, open |-> ~raises]
        /\ UNCHANGED <<accepted, l_active_connections, f_response,
                       serverVars>>
        /\ UNCHANGED <<routerVars, legacyVars, cacheVars, dictVars,
                       handlerVars, taskVars>>

\* main.py: receive_text raises WebSocketDisconnect, manager.disconnect
l_e_close(ws) ==
    /\ ws \in l_accepted
    /\ l_accepted' = l_accepted \ {ws}
    /\ l_active_connections' = l_active_connections \ {ws}
    /\ e_last' = [app |-> "root", ws |-> ws, kind |-> "close",
                  answer |-> "none", delivered |-> FALSE, open |-> FALSE]
    /\ UNCHANGED <<accepted, f_response, serverVars>>
    /\ UNCHANGED <<routerVars, legacyVars, cacheVars, dictVars, handlerVars,
                   taskVars>>

-----------------------------------------------------------------------------
\* main.py: the spell-check cache, the custom dictionary and the engine
\* preference.  A str is a sequence of characters; Umlaut is the one
\* character outside ASCII (e-diaeresis, U+00EB).

Umlaut == "U+00EB"

ascii_uppercase ==
    <<"A", "B", "C", "D", "E", "F", "G", "H", "I", "J", "K", "L", "M",
      "N", "O", "P", "Q", "R", "S", "T", "U", "V", "W", "X", "Y", "Z">>

ascii_lowercase ==
    <<"a", "b", "c", "d", "e", "f", "g", "h", "i", "j", "k", "l", "m",
      "n", "o", "p", "q", "r", "s", "t", "u", "v", "w", "x", "y", "z">>

digits == <<"0", "1", "2", "3", "4", "5", "6", "7", "8", "9">>

Range(f) == {f[i] : i \in DOMAIN f}

\* one character of str.lower()
lower_char(c) ==
    IF c \in Range(ascii_uppercase)
    THEN ascii_lowercase[CHOOSE i \in DOMAIN ascii_uppercase :
                             ascii_uppercase[i] = c]
    ELSE c

\* str.lower()
lower(s) == [i \in DOMAIN s |-> lower_char(s[i])]

\* the characters the regular expression class \w matches
WordChars ==
    Range(ascii_uppercase) \cup Range(ascii_lowercase) \cup Range(digits)
        \cup {"_", Umlaut}

\* str.strip() of the lines of the model, whose only blank character is " "
RECURSIVE lstrip(_)
lstrip(s) ==
    IF s # <<>> /\ Head(s) = " " THEN lstrip(Tail(s)) ELSE s

RECURSIVE rstrip(_)
rstrip(s) ==
    IF s # <<>> /\ s[Len(s)] = " "
    THEN rstrip(SubSeq(s, 1, Len(s) - 1))
    ELSE s

strip(s) == rstrip(lstrip(s))

\* re.findall(r'\b\w+\b', s): the maximal runs of word characters
RECURSIVE scan_words(_, _, _, _)
scan_words(s, i, cur, acc) ==
    IF i > Len(s)
    THEN IF cur = <<>> THEN acc ELSE Append(acc, cur)
    ELSE IF s[i] \in WordChars
    THEN scan_words(s, i + 1, Append(cur, s[i]), acc)
    ELSE scan_words(s, i + 1, <<>>,
                    IF cur = <<>> THEN acc ELSE Append(acc, cur))

findall_words(s) == scan_words(s, 1, <<>>, <<>>)

\* str.find(sub, start): the lowest 0-based index at or after start, or -1
find(s, sub, start) ==
    LET at == {i \in start..(Len(s) - Len(sub)) :
                  SubSeq(s, i + 1, i + Len(sub)) = sub}
    IN  IF at = {} THEN -1 ELSE CHOOSE i \in at : \A j \in at : i <= j

RECURSIVE Concat(_)
Concat(ss) == IF ss = <<>> THEN <<>> ELSE Head(ss) \o Concat(Tail(ss))

RECURSIVE Join(_, _)
Join(ss, sep) ==
    IF ss = <<>> THEN <<>>
    ELSE IF Len(ss) = 1 THEN ss[1]
    ELSE ss[1] \o sep \o Join(Tail(ss), sep)

\* the texts of the model
s_the == <<"t", "h", "e">>
s_ten == <<"t", "e", "n">>
s_teh == <<"t", "e", "h">>
s_Teh == <<"T", "e", "h">>
s_zoe == <<"z", "o", Umlaut>>
s_the_Teh == s_the \o <<" ">> \o s_Teh
s_zoe_h == s_zoe \o <<"_", "h">>
s_blank == <<" ">>
s_pyspellchecker ==
    <<"p", "y", "s", "p", "e", "l", "l", "c", "h", "e", "c", "k", "e", "r">>
s_hunspell == <<"h", "u", "n", "s", "p", "e", "l", "l">>
s_h_hunspell == <<"h", "_">> \o s_hunspell

\* lines given to spell_check_line
Lines == {s_the_Teh, s_zoe, s_zoe_h, s_blank}

\* words given to add_word_to_dictionary / remove_word_from_dictionary
Words == {s_Teh, s_zoe}

\* values the spell_checker_engine setting is given; update_settings and
\* set_user_setting store any string
EngineValues == {s_pyspellchecker, s_hunspell, s_h_hunspell}

NoSetting == <<"<", "n", "o", "n", "e", ">">>

\* suggestions kept per word: [:15]
MaxSuggestions == 15

\* rows the spell_cache table holds at most in the model
MaxCache == 2

take(s, n) == SubSeq(s, 1, IF Len(s) < n THEN Len(s) ELSE n)

\* `word.lower() in pyspell_checker`
PySpellKnown == {s_the}

\* pyspell_checker.candidates(word)
pyspell_candidates(word) ==
    IF lower(word) = s_teh THEN <<s_the>> ELSE <<lower(word)>>

\* hunspell_checker.spell(word)
HunspellKnown == {s_the}

\* hunspell_checker.suggest(word)
hunspell_suggest(word) ==
    IF lower(word) = s_teh THEN <<s_the, s_ten>> ELSE <<>>

\* spell_check_word_with_engine; hun.available is
\* `hunspell_checker and HUNSPELL_AVAILABLE`, hun.raises says whether the
\* hunspell calls of this check raise
spell_check_word_with_engine(word, engine, hun) ==
    IF engine = s_hunspell /\ hun.available /\ ~hun.raises
    THEN IF word \in HunspellKnown
         THEN [is_correct |-> TRUE, suggestions |-> <<>>]
         ELSE [is_correct |-> FALSE,
               suggestions |-> take(hunspell_suggest(word), MaxSuggestions)]
    ELSE IF lower(word) \notin PySpellKnown
         THEN [is_correct |-> FALSE,
               suggestions |-> take(pyspell_candidates(word), MaxSuggestions)]
         ELSE [is_correct |-> TRUE, suggestions |-> <<>>]

\* str.encode('utf-8'): an ASCII character is its own byte
utf8_char(c) == IF c = Umlaut THEN <<"0xC3", "0xAB">> ELSE <<c>>

utf8(s) == Concat([i \in DOMAIN s |-> utf8_char(s[i])])

\* hash_line: SHA-256 of the encoded text, taken as collision free
hash_line(line_text) == [sha256 |-> utf8(line_text)]

\* the fingerprint spell_check_line computes for a line under an engine
fingerprint(line_text, engine) == hash_line(line_text \o <<"_">> \o engine)

\* ---- json.dumps / json.loads of an error list --------------------------

k_word == <<"w", "o", "r", "d">>
k_start_pos == <<"s", "t", "a", "r", "t", "_", "p", "o", "s">>
k_end_pos == <<"e", "n", "d", "_", "p", "o", "s">>
k_suggestions ==
    <<"s", "u", "g", "g", "e", "s", "t", "i", "o", "n", "s">>

RECURSIVE json_int(_)
json_int(n) ==
    IF n < 10 THEN <<digits[n + 1]>>
    ELSE json_int(n \div 10) \o <<digits[(n % 10) + 1]>>

\* ensure_ascii=True: a character outside ASCII is written \uXXXX
json_escape(c) ==
    IF c = Umlaut THEN <<"\\", "u", "0", "0", "e", "b">>
    ELSE IF c = "\"" THEN <<"\\", "\"">>
    ELSE IF c = "\\" THEN <<"\\", "\\">>
    ELSE <<c>>

json_string(s) ==
    <<"\"">> \o Concat([i \in DOMAIN s |-> json_escape(s[i])]) \o <<"\"">>

json_list(items) == <<"[">> \o Join(items, <<",", " ">>) \o <<"]">>

json_member(key, text) == json_string(key) \o <<":", " ">> \o text

json_error(e) ==
    <<"{">>
    \o Join(<<json_member(k_word, json_string(e.word)),
              json_member(k_start_pos, json_int(e.start_pos)),
              json_member(k_end_pos, json_int(e.end_pos)),
              json_member(k_suggestions,
                  json_list([i \in DOMAIN e.suggestions |->
                                json_string(e.suggestions[i])]))>>,
            <<",", " ">>)
    \o <<"}">>

\* json.dumps(errors)
json_dumps(errors) ==
    json_list([i \in DOMAIN errors |-> json_error(errors[i])])

code_point(hex) ==
    IF hex = <<"0", "0", "e", "b">> THEN Umlaut ELSE "U+FFFD"

RECURSIVE skip_ws(_, _)
skip_ws(s, i) ==
    IF i <= Len(s) /\ s[i] = " " THEN skip_ws(s, i + 1) ELSE i

\* i is the position after the opening quote
RECURSIVE parse_string(_, _, _)
parse_string(s, i, acc) ==
    IF s[i] = "\""
    THEN [val |-> acc, next |-> i + 1]
    ELSE IF s[i] = "\\"
    THEN IF s[i + 1] = "u"
         THEN parse_string(s, i + 6,
                           Append(acc, code_point(SubSeq(s, i + 2, i + 5))))
         ELSE parse_string(s, i + 2, Append(acc, s[i + 1]))
    ELSE parse_string(s, i + 1, Append(acc, s[i]))

RECURSIVE parse_int(_, _, _)
parse_int(s, i, acc) ==
    IF i <= Len(s) /\ s[i] \in Range(digits)
    THEN parse_int(s, i + 1,
                   acc * 10 + (CHOOSE d \in 0..9 : digits[d + 1] = s[i]))
    ELSE [val |-> acc, next |-> i]

\* a JSON object: the last member of a key wins
dict(pairs) ==
    [k \in {pairs[i][1] : i \in DOMAIN pairs} |->
        pairs[CHOOSE i \in DOMAIN pairs :
                  /\ pairs[i][1] = k
                  /\ \A j \in DOMAIN pairs : pairs[j][1] = k => j <= i][2]]

RECURSIVE parse_value(_, _)
RECURSIVE parse_elements(_, _, _)
RECURSIVE parse_members(_, _, _)

parse_value(s, i) ==
    LET j == skip_ws(s, i)
        k == skip_ws(s, j + 1)
    IN  IF s[j] = "\"" THEN parse_string(s, j + 1, <<>>)
        ELSE IF s[j] = "["
        THEN IF s[k] = "]" THEN [val |-> <<>>, next |-> k + 1]
             ELSE parse_elements(s, k, <<>>)
        ELSE IF s[j] = "{"
        THEN IF s[k] = "}" THEN [val |-> dict(<<>>), next |-> k + 1]
             ELSE parse_members(s, k, <<>>)
        ELSE parse_int(s, j, 0)

parse_elements(s, i, acc) ==
    LET v == parse_value(s, i)
        j == skip_ws(s, v.next)
    IN  IF s[j] = ","
        THEN parse_elements(s, j + 1, Append(acc, v.val))
        ELSE [val |-> Append(acc, v.val), next |-> j + 1]

parse_members(s, i, acc) ==
    LET key == parse_value(s, i)
        colon == skip_ws(s, key.next)
        v == parse_value(s, colon + 1)
        j == skip_ws(s, v.next)
        acc2 == Append(acc, <<key.val, v.val>>)
    IN  IF s[j] = ","
        THEN parse_members(s, j + 1, acc2)
        ELSE [val |-> dict(acc2), next |-> j + 1]

\* json.loads(text) of a stored error list, each object read by its keys
json_loads(text) ==
    LET v == parse_value(text, 1).val
    IN  [i \in DOMAIN v |->
            [word |-> v[i][k_word],
             start_pos |-> v[i][k_start_pos],
             end_pos |-> v[i][k_end_pos],
             suggestions |-> v[i][k_suggestions]]]

\* SQLite `text LIKE pattern`: % is any run, _ any one character, letters
\* compare without case for ASCII only
RECURSIVE like(_, _)
like(text, pattern) ==
    IF pattern = <<>> THEN text = <<>>
    ELSE IF Head(pattern) = "%"
    THEN \E k \in 0..Len(text) :
            like(SubSeq(text, k + 1, Len(text)), Tail(pattern))
    ELSE /\ text # <<>>
         /\ \/ Head(pattern) = "_"
            \/ lower_char(Head(pattern)) = lower_char(Head(text))
         /\ like(Tail(text), Tail(pattern))

\* f'%"{word.lower()}"%'
word_pattern(word) == <<"%", "\"">> \o lower(word) \o <<"\"", "%">>

\* whether an error list reports the word
flags(errors, word) ==
    \E i \in DOMAIN errors : lower(errors[i].word) = lower(word)

\* ---- the operations of main.py ------------------------------------------

NoCall == [op |-> "none", arg |-> <<>>, result |-> <<>>, hit |-> FALSE,
           engine_calls |-> 0, repeat |-> FALSE, flagged |-> {},
           dropped |-> {}, rechecked |-> FALSE]

\* get_user_setting('spell_checker_engine', 'pyspellchecker')
\*     or 'pyspellchecker'
preferred_engine(setting) ==
    IF setting = <<>> THEN s_pyspellchecker ELSE setting

\* the loop of spell_check_line over the words of the line: the errors it
\* collects and the number of spell_check_word_with_engine calls it makes
RECURSIVE check_words(_, _, _, _, _, _)
check_words(line_text, words, current_pos, custom_words, engine, hun) ==
    IF words = <<>>
    THEN [errors |-> <<>>, calls |-> 0]
    ELSE
      LET word == Head(words)
          word_start == find(line_text, word, current_pos)
          word_end == word_start + Len(word)
          skipped == check_words(line_text, Tail(words), current_pos,
                                 custom_words, engine, hun)
          rest == check_words(line_text, Tail(words), word_end,
                              custom_words, engine, hun)
          checked == spell_check_word_with_engine(word, engine, hun)
      IN  IF word_start = -1 THEN skipped
          ELSE IF lower(word) \in custom_words THEN rest
          ELSE [errors |->
                    (IF checked.is_correct THEN <<>>
                     ELSE <<[word |-> word, start_pos |-> word_start,
                             end_pos |-> word_end,
                             suggestions |-> checked.suggestions]>>)
                    \o rest.errors,
                calls |-> rest.calls + 1]

\* SELECT errors_json FROM spell_cache WHERE line_hash = ?
cached_result(cache, line_hash) ==
    {row \in cache : row.line_hash = line_hash}

\* an INSERT that keeps only the lines that have errors
insert_nonempty(cache, row) ==
    IF row.errors_json = <<"[", "]">>
    THEN cache
    ELSE {old \in cache : old.line_hash # row.line_hash} \cup {row}

\* INSERT OR REPLACE INTO spell_cache: line_hash is UNIQUE
insert_or_replace(cache, row) ==
    {old \in cache : old.line_hash # row.line_hash} \cup {row}

\* spell_check_line(line_text); raises says whether the hunspell calls of
\* this check raise, which needs hunspell to be in use.  written_by names
\* the engine preference under which a row was written; it is not a column
\* of the table.  last.repeat says that the operation before this call was
\* a spell_check_line of the same line, last.rechecked that it was a
\* removal from the dictionary that deleted a row of this line.
spell_check_line(line_text, raises) ==
    LET engine == preferred_engine(user_settings)
        line_hash == fingerprint(line_text, engine)
        cached == cached_result(spell_cache, line_hash)
        row == CHOOSE r \in cached : TRUE
        custom_words == {lower(w) : w \in user_dictionary}
        fresh == check_words(line_text, findall_words(line_text), 0,
                             custom_words, engine,
                             [available |-> HUNSPELL_AVAILABLE,
                              raises |-> raises])
        call == [NoCall EXCEPT
                    !.op = "spell_check_line",
                    !.arg = line_text,
                    !.repeat = /\ last.op = "spell_check_line"
                               /\ last.arg = line_text,
                    !.rechecked = line_text \in last.dropped]
    IN  /\ raises => engine = s_hunspell /\ HUNSPELL_AVAILABLE
        /\ IF strip(line_text) = <<>>
           THEN /\ last' = call
                /\ UNCHANGED spell_cache
           ELSE IF cached # {}
           THEN /\ last' = [call EXCEPT
                       !.result = IF row.errors_json # <<>>
                                  THEN json_loads(row.errors_json)
                                  ELSE <<>>,
                       !.hit = TRUE]
                /\ UNCHANGED spell_cache
           ELSE /\ Cardinality(spell_cache) < MaxCache
                /\ spell_cache' = insert_or_replace(spell_cache,
                       [line_hash |-> line_hash,
                        line_text |-> line_text,
                        errors_json |-> json_dumps(fresh.errors),
                        written_by |-> engine])
                /\ last' = [call EXCEPT !.result = fresh.errors,
                                        !.engine_calls = fresh.calls]
        /\ UNCHANGED <<user_dictionary, user_settings, HUNSPELL_AVAILABLE>>
        /\ UNCHANGED <<routerVars, legacyVars, dictVars, handlerVars,
                       serverVars, endpointVars, taskVars>>

\* add_word_to_dictionary(word).  last.flagged records the lines whose
\* cached result, under the current preference, reported the word.
add_word_to_dictionary(word) ==
    /\ user_dictionary' = user_dictionary \cup {lower(word)}
    /\ spell_cache' =
           {row \in spell_cache :
               ~like(row.errors_json, word_pattern(word))}
    /\ last' = [NoCall EXCEPT
           !.op = "add_word_to_dictionary",
           !.arg = word,
           !.flagged =
               {row.line_text : row \in
                   {r \in spell_cache :
                       /\ r.line_hash =
                              fingerprint(r.line_text,
                                          preferred_engine(user_settings))
                       /\ flags(json_loads(r.errors_json), word)}}]
    /\ UNCHANGED <<user_settings, HUNSPELL_AVAILABLE>>
    /\ UNCHANGED <<routerVars, legacyVars, dictVars, handlerVars,
                   serverVars, endpointVars, taskVars>>

\* a removal that deletes the word and leaves the cache alone
remove_word_keeping_cache(word) ==
    /\ user_dictionary' = user_dictionary \ {lower(word)}
    /\ last' = [NoCall EXCEPT !.op = "remove_word_from_dictionary",
                              !.arg = word]
    /\ UNCHANGED <<spell_cache, user_settings, HUNSPELL_AVAILABLE>>
    /\ UNCHANGED <<routerVars, legacyVars, dictVars, handlerVars,
                   serverVars, endpointVars, taskVars>>

\* DELETE /api/dictionary/{word}.  last.dropped records the lines that
\* hold the word and had a row deleted.
remove_word_from_dictionary(word) ==
    /\ user_dictionary' = user_dictionary \ {lower(word)}
    /\ spell_cache' =
           {row \in spell_cache :
               ~(~like(row.errors_json, word_pattern(word)))}
    /\ last' = [NoCall EXCEPT
           !.op = "remove_word_from_dictionary",
           !.arg = word,
           !.dropped =
               {row.line_text : row \in
                   {r \in spell_cache :
                       /\ ~like(r.errors_json, word_pattern(word))
                       /\ \E w \in Range(findall_words(r.line_text)) :
                              lower(w) = lower(word)}}]
    /\ UNCHANGED <<user_settings, HUNSPELL_AVAILABLE>>
    /\ UNCHANGED <<routerVars, legacyVars, dictVars, handlerVars,
                   serverVars, endpointVars, taskVars>>

\* POST /api/settings; value is settings['spell_checker_engine'], or
\* NoSetting when the posted settings do not hold that key
update_settings(value) ==
    /\ IF value # NoSetting
       THEN /\ user_settings' = value
            /\ spell_cache' = {}
       ELSE UNCHANGED <<user_settings, spell_cache>>
    /\ last' = [NoCall EXCEPT !.op = "update_settings", !.arg = value]
    /\ UNCHANGED <<user_dictionary, HUNSPELL_AVAILABLE>>
    /\ UNCHANGED <<routerVars, legacyVars, dictVars, handlerVars,
                   serverVars, endpointVars, taskVars>>

\* set_user_setting('spell_checker_engine', setting_value)
set_user_setting(setting_value) ==
    /\ user_settings' = setting_value
    /\ last' = [NoCall EXCEPT !.op = "set_user_setting",
                              !.arg = setting_value]
    /\ UNCHANGED <<spell_cache, user_dictionary, HUNSPELL_AVAILABLE>>
    /\ UNCHANGED <<routerVars, legacyVars, dictVars, handlerVars,
                   serverVars, endpointVars, taskVars>>
-----------------------------------------------------------------------------
\* main.py: spell_check_line as the event loop runs it.  Each await on the
\* database lets other coroutines run, so a call is a sequence of steps with
\* its local variables kept between them: get_user_setting, the SELECT on
\* spell_cache, the SELECT on user_dictionary, then the word loop (which
\* reads no shared state) and the INSERT OR REPLACE.

\* the coroutines that may be inside spell_check_line at once
Tasks == {"t1", "t2"}

\* the lines the concurrent calls check
TaskLines == {s_the_Teh, s_zoe}

\* the words added and removed while they run
TaskWords == {s_Teh}

NoErrorsJson == <<>>

\* a coroutine outside spell_check_line.  known is user_dictionary as it
\* was when the call started, stored the errors_json the call inserted,
\* overlapped the tasks whose calls were in flight together with this one.
NoTask == [pc |-> "idle", line_text |-> <<>>, engine |-> <<>>,
           custom_words |-> {}, result |-> <<>>, hit |-> FALSE,
           known |-> {}, stored |-> NoErrorsJson, overlapped |-> {}]

NoTasks == [t \in Tasks |-> NoTask]

in_flight(t) == tasks[t].pc \in {"select_cache", "select_dictionary", "check"}

\* spell_check_line(line_text) up to the end of get_user_setting
call_spell_check_line(t, line_text) ==
    /\ ~in_flight(t)
    /\ tasks' =
          [u \in Tasks |->
              IF u = t
              THEN [NoTask EXCEPT
                      !.pc = IF strip(line_text) = <<>>
                             THEN "returned" ELSE "select_cache",
                      !.line_text = line_text,
                      !.engine = preferred_engine(user_settings),
                      !.known = user_dictionary,
                      !.overlapped =
                          IF strip(line_text) = <<>> THEN {}
                          ELSE {v \in Tasks \ {t} : in_flight(v)}]
              ELSE [tasks[u] EXCEPT
                      !.overlapped =
                          IF in_flight(u) /\ strip(line_text) # <<>>
                          THEN @ \cup {t} ELSE @ \ {t}]]
    /\ UNCHANGED <<routerVars, legacyVars, cacheVars, dictVars,
                   handlerVars, serverVars, endpointVars>>
    /\ UNCHANGED callVars

\* "SELECT errors_json FROM spell_cache WHERE line_hash = ?" and the return
\* of the cached result
select_cached_result(t) ==
    LET line_hash == fingerprint(tasks[t].line_text, tasks[t].engine)
        cached == cached_result(spell_cache, line_hash)
        row == CHOOSE r \in cached : TRUE
    IN  /\ tasks[t].pc = "select_cache"
        /\ tasks' = [tasks EXCEPT ![t] =
              IF cached # {}
              THEN [@ EXCEPT !.pc = "returned",
                             !.hit = TRUE,
                             !.result = IF row.errors_json # <<>>
                                        THEN json_loads(row.errors_json)
                                        ELSE <<>>]
              ELSE [@ EXCEPT !.pc = "select_dictionary"]]
        /\ UNCHANGED <<routerVars, legacyVars, cacheVars, dictVars,
                       handlerVars, serverVars, endpointVars>>
        /\ UNCHANGED callVars

\* "SELECT word FROM user_dictionary" into custom_words
select_user_dictionary(t) ==
    /\ tasks[t].pc = "select_dictionary"
    /\ tasks' = [tasks EXCEPT ![t] =
          [@ EXCEPT !.pc = "check",
                    !.custom_words = {lower(w) : w \in user_dictionary}]]
    /\ UNCHANGED <<routerVars, legacyVars, cacheVars, dictVars,
                   handlerVars, serverVars, endpointVars>>
    /\ UNCHANGED callVars

\* the word loop over the line, with the custom_words read earlier, and the
\* INSERT OR REPLACE of its errors
insert_errors(t, raises) ==
    LET line_text == tasks[t].line_text
        engine == tasks[t].engine
        fresh == check_words(line_text, findall_words(line_text), 0,
                             tasks[t].custom_words, engine,
                             [available |-> HUNSPELL_AVAILABLE,
                              raises |-> raises])
    IN  /\ tasks[t].pc = "check"
        /\ raises => engine = s_hunspell /\ HUNSPELL_AVAILABLE
        /\ spell_cache' = insert_or_replace(spell_cache,
               [line_hash |-> fingerprint(line_text, engine),
                line_text |-> line_text,
                errors_json |-> json_dumps(fresh.errors),
                written_by |-> engine])
        /\ tasks' = [tasks EXCEPT ![t] =
              [@ EXCEPT !.pc = "returned",
                        !.result = fresh.errors,
                        !.stored = json_dumps(fresh.errors)]]
        /\ UNCHANGED <<user_dictionary, user_settings, HUNSPELL_AVAILABLE,
                       last>>
        /\ UNCHANGED <<routerVars, legacyVars, dictVars, handlerVars,
                       serverVars, endpointVars>>
        /\ UNCHANGED callVars
-----------------------------------------------------------------------------
\* the suggestion lists of the spell-check engines.  The libraries are
\* outside the repository: a call is given the number of candidates the
\* library returns for the word and the place of the corrected word among
\* them.  A suggestion is [rank, upper]: its place in the library's list
\* (0 for a corrected word that is not in the list) and whether it starts
\* with an upper-case letter.

\* candidates the library returns at most
MaxCandidates == 17

\* the candidate counts checked: none, one, and those around the cut
CandidateCounts == {0, 1, 14, 15, 16, MaxCandidates}

\* check_sentence / check_text implementations
SuggestionEngines ==
    {"main", "provider", "neuspell", "engines.pyspellchecker",
     "engines.autocorrect", "root.pyspellchecker", "root.autocorrect"}

NoSuggestion == [rank |-> -1, upper |-> FALSE]

NoEngineCall == [op |-> "none", engine |-> "none", word_upper |-> FALSE,
                 candidates |-> 0, corrected_at |-> 0,
                 suggestions |-> <<>>, current_text |-> <<>>, cursor |-> 0,
                 text_before_cursor |-> <<>>, text_after_cursor |-> <<>>]

\* the library's candidates for a word, best first
library_candidates(n, corrected_at, word_upper) ==
    [i \in 1..n |-> [rank |-> i, upper |-> i = corrected_at /\ word_upper]]

\* checker.autocorrect_word(word), which keeps the capitalization of word
corrected_word_of(n, corrected_at, word_upper) ==
    IF corrected_at = 0
    THEN [rank |-> 0, upper |-> word_upper]
    ELSE library_candidates(n, corrected_at, word_upper)[corrected_at]

\* s.capitalize() for the suggestions that start in lower case
capitalized(suggestions) ==
    [i \in DOMAIN suggestions |-> [suggestions[i] EXCEPT !.upper = TRUE]]

\* _filter_suggestions_by_context of the engines in backend/engines;
\* sentence_suggestion is the word of the full-sentence correction at the
\* position of the word (AutocorrectEngine only), NoSuggestion without one
filter_suggestions_by_context(word_upper, suggestions, sentence_suggestion) ==
    LET moved ==
            IF sentence_suggestion \in Range(suggestions)
            THEN <<sentence_suggestion>> \o
                 SelectSeq(suggestions,
                           LAMBDA x : x # sentence_suggestion)
            ELSE suggestions
    IN  IF suggestions = <<>> THEN suggestions
        ELSE IF word_upper
        THEN take(SelectSeq(moved, LAMBDA x : x.upper) \o
                  capitalized(SelectSeq(moved, LAMBDA x : ~x.upper)),
                  15)
        ELSE moved

\* the suggestions AutocorrectEngine.check_sentence builds before filtering
autocorrect_suggestions(n, corrected_at, word_upper) ==
    LET candidates == library_candidates(n, corrected_at, word_upper)
        corrected_word == corrected_word_of(n, corrected_at, word_upper)
        top == take(candidates, 15)
    IN  IF candidates # <<>>
        THEN IF corrected_word \notin Range(top)
             THEN <<corrected_word>> \o top
             ELSE top
        ELSE <<corrected_word>>

\* the "suggestions" of the error an engine reports for a misspelled word
engine_suggestions(engine, n, corrected_at, word_upper, in_sentence) ==
    LET candidates == library_candidates(n, corrected_at, word_upper)
        corrected_word == corrected_word_of(n, corrected_at, word_upper)
    IN  IF engine = "main" THEN take(candidates, MaxSuggestions)
        ELSE IF engine = "provider" THEN take(candidates, 5)
        ELSE IF engine = "neuspell" THEN <<corrected_word>>
        ELSE IF engine = "root.pyspellchecker" THEN take(candidates, 15)
        ELSE IF engine = "engines.pyspellchecker"
        THEN filter_suggestions_by_context(
                 word_upper, take(candidates, 15), NoSuggestion)
        ELSE IF engine = "root.autocorrect"
        THEN autocorrect_suggestions(n, corrected_at, word_upper)
        ELSE filter_suggestions_by_context(
                 word_upper,
                 autocorrect_suggestions(n, corrected_at, word_upper),
                 IF in_sentence THEN corrected_word ELSE NoSuggestion)

\* a check of a sentence that holds one misspelled word
check_sentence(engine, n, corrected_at, word_upper, in_sentence) ==
    /\ corrected_at <= n
    /\ x_last' = [NoEngineCall EXCEPT
           !.op = "check_sentence", !.engine = engine,
           !.word_upper = word_upper, !.candidates = n,
           !.corrected_at = corrected_at,
           !.suggestions = engine_suggestions(engine, n, corrected_at,
                                              word_upper, in_sentence)]
    /\ UNCHANGED <<tasks, engineVars, b_task>>
    /\ UNCHANGED <<routerVars, legacyVars, cacheVars, dictVars,
                   handlerVars, serverVars, endpointVars>>

-----------------------------------------------------------------------------
\* main.py and prediction_engines.py: the text around the cursor

\* cursors sent are within -MaxCursor..MaxCursor
MaxCursor == 9

\* the index a slice bound stands for: negative bounds count from the end,
\* and bounds outside the string are clipped
slice_index(s, i) ==
    IF i < 0
    THEN (IF Len(s) + i < 0 THEN 0 ELSE Len(s) + i)
    ELSE (IF i > Len(s) THEN Len(s) ELSE i)

\* s[:i]
slice_to(s, i) == SubSeq(s, 1, slice_index(s, i))

\* s[i:]
slice_from(s, i) == SubSeq(s, slice_index(s, i) + 1, Len(s))

\* current_text[:cursor] if cursor <= len(current_text) else current_text
text_before_cursor(current_text, cursor) ==
    IF cursor <= Len(current_text)
    THEN slice_to(current_text, cursor)
    ELSE current_text

\* current_text[cursor:] if cursor < len(current_text) else ""
text_after_cursor(current_text, cursor) ==
    IF cursor < Len(current_text)
    THEN slice_from(current_text, cursor)
    ELSE <<>>

\* the functions that split current_text at the cursor
PredictionFunctions ==
    {"predict_next_tokens_structured",
     "TraditionalPredictionEngine.predict_next_tokens",
     "FrequencyBasedPredictor.predict_next_tokens"}

\* the first statements of a prediction
predict_next_tokens(engine, current_text, cursor) ==
    /\ x_last' = [NoEngineCall EXCEPT
           !.op = "predict_next_tokens", !.engine = engine,
           !.current_text = current_text, !.cursor = cursor,
           !.text_before_cursor =
               text_before_cursor(current_text, cursor),
           !.text_after_cursor = text_after_cursor(current_text, cursor)]
    /\ UNCHANGED <<tasks, engineVars, b_task>>
    /\ UNCHANGED <<routerVars, legacyVars, cacheVars, dictVars,
                   handlerVars, serverVars, endpointVars>>

-----------------------------------------------------------------------------
\* backend/engines/spell_check_engines.py: SpellCheckEngineFactory.  No
\* initialize() of an engine class holds an await, so
\* `await engine.initialize()` never gives control back to the event loop
\* and a get_engine call runs from its first statement to its return
\* without another coroutine in between: concurrent calls are calls in
\* some order.

\* cls._engines
EngineClasses == {"pyspellchecker", "hunspell", "autocorrect", "neuspell"}

\* engine names asked for
EngineNames == {"pyspellchecker", "hunspell", "unknown"}

\* engine objects constructed at most for one name
MaxEngines == 3

\* None
NoEngineObject == <<"none", 0>>

NoEngines == [name \in {} |-> NoEngineObject]

NoGetEngine == [engine_name |-> "none", returned |-> NoEngineObject,
                initialized |-> FALSE]

\* get_engine without the cache of initialized engines
get_engine_uncached(engine_name, ok) ==
    LET engine == <<engine_name, engines_created[engine_name] + 1>>
        call == [NoGetEngine EXCEPT !.engine_name = engine_name]
    IN  /\ IF engine_name \notin EngineClasses
           THEN /\ g_last' = call
                /\ UNCHANGED <<initialized_engines, engines_created,
                               engines_initialized>>
           ELSE /\ engines_created[engine_name] < MaxEngines
                /\ engines_created' =
                       [engines_created EXCEPT ![engine_name] = @ + 1]
                /\ engines_initialized' =
                       IF ok THEN engines_initialized \cup {engine}
                       ELSE engines_initialized
                /\ initialized_engines' =
                       IF ok
                       THEN [n \in DOMAIN initialized_engines \cup
                                   {engine_name} |->
                                IF n = engine_name THEN engine
                                ELSE initialized_engines[n]]
                       ELSE initialized_engines
                /\ g_last' = [call EXCEPT
                       !.returned = IF ok THEN engine ELSE NoEngineObject,
                       !.initialized = TRUE]
        /\ UNCHANGED <<tasks, x_last, b_task>>
        /\ UNCHANGED <<routerVars, legacyVars, cacheVars, dictVars,
                       handlerVars, serverVars, endpointVars>>

\* get_engine(engine_name); ok says whether engine.initialize() returns
\* True, g_last.initialized that the call ran initialize()
get_engine(engine_name, ok) ==
    LET engine == <<engine_name, engines_created[engine_name] + 1>>
        call == [NoGetEngine EXCEPT !.engine_name = engine_name]
    IN  /\ IF engine_name \notin EngineClasses
           THEN /\ g_last' = call
                /\ UNCHANGED <<initialized_engines, engines_created,
                               engines_initialized>>
           ELSE IF engine_name \in DOMAIN initialized_engines
           THEN /\ g_last' = [call EXCEPT
                       !.returned = initialized_engines[engine_name]]
                /\ UNCHANGED <<initialized_engines, engines_created,
                               engines_initialized>>
           ELSE /\ engines_created[engine_name] < MaxEngines
                /\ engines_created' =
                       [engines_created EXCEPT ![engine_name] = @ + 1]
                /\ engines_initialized' =
                       IF ok THEN engines_initialized \cup {engine}
                       ELSE engines_initialized
                /\ initialized_engines' =
                       IF ok
                       THEN [n \in DOMAIN initialized_engines \cup
                                   {engine_name} |->
                                IF n = engine_name THEN engine
                                ELSE initialized_engines[n]]
                       ELSE initialized_engines
                /\ g_last' = [call EXCEPT
                       !.returned = IF ok THEN engine ELSE NoEngineObject,
                       !.initialized = TRUE]
        /\ UNCHANGED <<tasks, x_last, b_task>>
        /\ UNCHANGED <<routerVars, legacyVars, cacheVars, dictVars,
                       handlerVars, serverVars, endpointVars>>

-----------------------------------------------------------------------------
\* backend router: broadcast_to_subscribers as the event loop runs it.  The
\* coroutine is suspended at `await websocket.send_text(...)`, inside
\* `for websocket, topics in self._subscriptions.items()`; connect,
\* disconnect, subscribe and unsubscribe of other tasks run meanwhile.  A
\* dict iterator raises RuntimeError from its next step when the dict holds
\* another number of keys than when the iteration began.

\* pc: "idle", "sending" (suspended in the send to current), "done" or
\* "raised"; used is len(self._subscriptions) when the loop began, visited
\* the connections sent to, disconnected those whose send raised
NoBroadcastTask == [pc |-> "idle", message_key |-> "none", used |-> 0,
                    visited |-> {}, current |-> NoWebSocket,
                    disconnected |-> {}]

\* the loop from a next() of the iterator up to the next send, or to the
\* end of the function; bt is the coroutine's state before it
broadcast_loop(bt) ==
    LET subscribers == {w \in DOMAIN subscriptions \ bt.visited :
                           bt.message_key \in subscriptions[w]}
    IN  IF Cardinality(DOMAIN subscriptions) # bt.used
        THEN /\ b_task' = [bt EXCEPT !.pc = "raised",
                                     !.current = NoWebSocket]
             /\ UNCHANGED <<websockets, subscriptions>>
        ELSE IF subscribers = {}
        THEN /\ b_task' = [bt EXCEPT !.pc = "done",
                                     !.current = NoWebSocket]
             \* for ws in disconnected: self.disconnect(ws)
             /\ websockets' = websockets \ bt.disconnected
             /\ subscriptions' =
                    [w \in DOMAIN subscriptions \ bt.disconnected |->
                        subscriptions[w]]
        ELSE /\ \E w \in subscribers :
                    b_task' = [bt EXCEPT !.pc = "sending", !.current = w,
                                         !.visited = @ \cup {w}]
             /\ UNCHANGED <<websockets, subscriptions>>

\* the call of broadcast_to_subscribers(message, message_key), up to its
\* first send
start_broadcast(message_key) ==
    /\ b_task.pc # "sending"
    /\ broadcast_loop([NoBroadcastTask EXCEPT
           !.message_key = message_key,
           !.used = Cardinality(DOMAIN subscriptions)])
    /\ UNCHANGED <<handlers, request, response, invoked, processed,
                   unanswered>>
    /\ UNCHANGED <<tasks, x_last, engineVars>>
    /\ UNCHANGED <<legacyVars, cacheVars, dictVars, handlerVars,
                   serverVars, endpointVars>>

\* the send the coroutine waits in returns, or raises when fails, and the
\* loop goes on
resume_broadcast(fails) ==
    /\ b_task.pc = "sending"
    /\ broadcast_loop([b_task EXCEPT
           !.disconnected = IF fails THEN @ \cup {b_task.current} ELSE @])
    /\ UNCHANGED <<handlers, request, response, invoked, processed,
                   unanswered>>
    /\ UNCHANGED <<tasks, x_last, engineVars>>
    /\ UNCHANGED <<legacyVars, cacheVars, dictVars, handlerVars,
                   serverVars, endpointVars>>

-----------------------------------------------------------------------------
\* backend/spellcheckers/factory.py and the backend DictionaryEventHandler

\* SpellCheckerType, in declaration order
SpellCheckerType == <<"pyspellchecker", "hunspell", "neuspell", "autocorrect">>

\* get_best_checker: best to worst
priority_order == <<"neuspell", "hunspell", "autocorrect", "pyspellchecker">>

Languages == {"en", "es"}

\* words sent in dictionary requests; NoWord is an absent or empty word
DictWords == {s_Teh, s_the}

NoWord == <<>>

Operations == {"add", "remove", "check", "list", "clear"}

NoChecker == <<"none", "none">>

NoProviders == [t \in {} |-> FALSE]

NoInstances == [k \in {} |-> FALSE]

NoDictCall == [operation |-> "none", word |-> NoWord, language |-> "none",
               raises |-> FALSE, success |-> FALSE, result |-> FALSE,
               status |-> {}, checker |-> "none"]

\* provider_class(language=language): not initialized, so not available
new_provider == [available |-> FALSE, word_frequency |-> {}]

\* a provider whose initialize() returned True
initialized_provider(t) ==
    [available |-> TRUE,
     word_frequency |-> IF t = "pyspellchecker" THEN PySpellKnown ELSE {}]

\* get_checker(checker_type, language): the instance key it returns and
\* self._instances afterwards (a missing instance is created and kept)
get_checker(inst, t, language) ==
    LET instance_key == <<t, language>>
    IN  IF instance_key \in DOMAIN inst
        THEN [key |-> instance_key, instances |-> inst]
        ELSE [key |-> instance_key,
              instances |->
                  [k \in DOMAIN inst \cup {instance_key} |->
                      IF k = instance_key THEN new_provider ELSE inst[k]]]

RECURSIVE best_from(_, _, _, _)
best_from(order, inst, initd, language) ==
    IF order = <<>>
    THEN [key |-> NoChecker, instances |-> inst]
    ELSE IF Head(order) \in DOMAIN initd /\ initd[Head(order)]
    THEN LET g == get_checker(inst, Head(order), language)
         IN  IF g.instances[g.key].available
             THEN g
             ELSE best_from(Tail(order), g.instances, initd, language)
    ELSE best_from(Tail(order), inst, initd, language)

\* get_best_checker(language)
get_best_checker(inst, initd, language) ==
    best_from(priority_order, inst, initd, language)

RECURSIVE status_from(_, _, _, _)
status_from(types, inst, initd, language) ==
    IF types = <<>>
    THEN [status |-> {}, instances |-> inst]
    ELSE LET g == get_checker(inst, Head(types), language)
             rest == status_from(Tail(types), g.instances, initd, language)
         IN  [status |->
                  rest.status \cup
                  {[type |-> Head(types),
                    available |-> g.instances[g.key].available,
                    initialized |-> /\ Head(types) \in DOMAIN initd
                                    /\ initd[Head(types)]]},
              instances |-> rest.instances]

\* get_status()
get_status(inst, initd, language) ==
    status_from(SpellCheckerType, inst, initd, language)

\* the correction the autocorrect speller and the neuspell model give a word
corrected_word(word) == IF lower(word) = s_teh THEN s_the ELSE word

\* whether checker.check_text(text).has_errors, by provider type
has_errors(t, provider, text) ==
    IF t = "pyspellchecker"
    THEN LET misspelled == {w \in Range(findall_words(lower(text))) :
                               w \notin provider.word_frequency}
         IN  \E w \in Range(findall_words(text)) : lower(w) \in misspelled
    ELSE IF t = "hunspell"
    THEN \E w \in Range(findall_words(text)) : w \notin HunspellKnown
    ELSE \E w \in Range(findall_words(text)) :
             lower(corrected_word(w)) # lower(w)

\* checker.add_word_to_dictionary(word), or False when the checker has no
\* such method: the outcome and the provider afterwards
provider_add(t, provider, word, raises) ==
    IF t = "pyspellchecker" /\ provider.available /\ ~raises
    THEN [result |-> TRUE,
          provider |-> [provider EXCEPT !.word_frequency =
                            @ \cup {lower(word)}]]
    ELSE [result |-> FALSE, provider |-> provider]

\* checker.remove_word_from_dictionary(word), or False without the method
provider_remove(t, provider, word, raises) ==
    IF /\ t = "pyspellchecker"
       /\ provider.available
       /\ ~raises
       /\ lower(word) \in provider.word_frequency
    THEN [result |-> TRUE,
          provider |-> [provider EXCEPT !.word_frequency =
                            @ \ {lower(word)}]]
    ELSE [result |-> FALSE, provider |-> provider]

\* factory.check_text(word, language=language) and `not has_errors`;
\* a check_text that raises gives None, except neuspell's, which catches
provider_check(t, provider, word, raises) ==
    IF raises THEN t = "neuspell" ELSE ~has_errors(t, provider, word)

\* initialize_all(language), run at startup; ok holds the provider types
\* whose initialize() succeeds in this environment
initialize_all(language, ok) ==
    /\ DOMAIN initialized_providers = {}
    /\ default_language' = language
    /\ instances' =
           [k \in DOMAIN instances \cup {<<t, language>> : t \in ok} |->
               IF k[1] \in ok /\ k[2] = language
               THEN initialized_provider(k[1])
               ELSE instances[k]]
    /\ initialized_providers' = [t \in Range(SpellCheckerType) |-> t \in ok]
    /\ d_last' = [NoDictCall EXCEPT !.operation = "initialize_all",
                                    !.language = language]
    /\ UNCHANGED <<routerVars, legacyVars, cacheVars, handlerVars,
                   serverVars, endpointVars, taskVars>>

\* cleanup_all(), run at shutdown
cleanup_all ==
    /\ DOMAIN initialized_providers # {}
    /\ instances' = NoInstances
    /\ initialized_providers' = NoProviders
    /\ d_last' = [NoDictCall EXCEPT !.operation = "cleanup_all"]
    /\ UNCHANGED default_language
    /\ UNCHANGED <<routerVars, legacyVars, cacheVars, handlerVars,
                   serverVars, endpointVars, taskVars>>

\* DictionaryEventHandler._process_message for a validated request
dictionary_request(operation, word, language, raises) ==
    LET best == get_best_checker(instances, initialized_providers, language)
        t == best.key[1]
        provider == best.instances[best.key]
        done == IF operation = "add"
                THEN provider_add(t, provider, word, raises)
                ELSE provider_remove(t, provider, word, raises)
        listed == get_status(instances, initialized_providers,
                             default_language)
        call == [NoDictCall EXCEPT !.operation = operation, !.word = word,
                                   !.language = language,
                                   !.raises = raises]
    IN  /\ IF operation \in {"add", "remove"} /\ word # NoWord
           THEN IF best.key = NoChecker
                THEN /\ instances' = best.instances
                     /\ d_last' = [call EXCEPT !.success = TRUE]
                ELSE /\ instances' =
                            [best.instances EXCEPT ![best.key] = done.provider]
                     /\ d_last' = [call EXCEPT !.success = TRUE,
                                               !.result = done.result,
                                               !.checker = t]
           ELSE IF operation = "check" /\ word # NoWord
           THEN /\ instances' = best.instances
                /\ d_last' =
                       [call EXCEPT
                           !.success = TRUE,
                           !.result =
                               /\ best.key # NoChecker
                               /\ provider_check(t, provider, word, raises),
                           !.checker = t]
           ELSE IF operation = "list"
           THEN /\ instances' = listed.instances
                /\ d_last' = [call EXCEPT !.success = TRUE,
                                          !.status = listed.status]
           ELSE /\ d_last' = call
                /\ UNCHANGED instances
        /\ UNCHANGED <<initialized_providers, default_language>>
        /\ UNCHANGED <<routerVars, legacyVars, cacheVars, handlerVars,
                       serverVars, endpointVars, taskVars>>

-----------------------------------------------------------------------------
\* ---- the spellcheck and prediction event handlers -----------------------

\* an absent or empty engine name in a request
NoEngine == <<>>

NoErrors == [i \in {} |-> <<>>]

\* no spellcheck request has been handled yet
NoSpellcheck ==
    [lines |-> <<>>, engine |-> NoEngine, language |-> "none",
     raises |-> FALSE, answered |-> FALSE, success |-> FALSE,
     errors |-> NoErrors, lines_checked |-> 0, engine_used |-> "none",
     error_message |-> FALSE, checked |-> {}, found |-> NoErrors,
     checked_by |-> "none"]

l_NoSpellcheck ==
    [lines |-> <<>>, engine |-> NoEngine, raises |-> FALSE,
     answered |-> FALSE, success |-> FALSE, errors |-> NoErrors,
     lines_checked |-> 0, engine_used |-> <<>>, checked |-> {},
     found |-> NoErrors, produced_by |-> {}]

NoPrediction ==
    [text |-> <<>>, engine |-> "none", max_predictions |-> 0,
     raises |-> FALSE, answered |-> FALSE, success |-> FALSE,
     predictions |-> <<>>, engine_used |-> "none",
     error_message |-> FALSE, available_engines |-> {}]

\* ---- backend SpellcheckEventHandler over the factory --------------------

\* engine names sent in spellcheck requests; h_hunspell is not a
\* SpellCheckerType value
RequestEngines == {NoEngine, s_pyspellchecker, s_hunspell, s_h_hunspell}

\* SpellCheckerType(value): the member with that value, "none" for the
\* ValueError of a value that is no member
SpellCheckerType_of(value) ==
    IF value = s_pyspellchecker THEN "pyspellchecker"
    ELSE IF value = s_hunspell THEN "hunspell"
    ELSE IF value = <<"n", "e", "u", "s", "p", "e", "l", "l">>
    THEN "neuspell"
    ELSE IF value = <<"a", "u", "t", "o", "c", "o", "r", "r", "e", "c", "t">>
    THEN "autocorrect"
    ELSE "none"

\* the name a provider class gives BaseSpellChecker.__init__
provider_name(t) ==
    IF t = "pyspellchecker" THEN "PySpellChecker"
    ELSE IF t = "hunspell" THEN "Hunspell"
    ELSE IF t = "neuspell" THEN "Neuspell"
    ELSE "Autocorrect"

\* re.finditer(r'\b\w+\b', s): each maximal run of word characters with
\* match.start() and match.end()
RECURSIVE scan_matches(_, _, _, _)
scan_matches(s, i, cur, acc) ==
    LET done == IF cur = <<>> THEN acc
                ELSE Append(acc, [word |-> cur,
                                  start |-> i - 1 - Len(cur),
                                  end |-> i - 1])
    IN  IF i > Len(s) THEN done
        ELSE IF s[i] \in WordChars
        THEN scan_matches(s, i + 1, Append(cur, s[i]), acc)
        ELSE scan_matches(s, i + 1, <<>>, done)

\* whether a provider's check_text reports the word of a match
flagged_by(t, provider, word) ==
    IF t = "pyspellchecker"
    THEN lower(word) \notin provider.word_frequency
    ELSE IF t = "hunspell"
    THEN word \notin HunspellKnown
    ELSE lower(corrected_word(word)) # lower(word)

RECURSIVE errors_of(_, _, _)
errors_of(t, provider, matches) ==
    IF matches = <<>> THEN <<>>
    ELSE (IF flagged_by(t, provider, Head(matches).word)
          THEN <<[word |-> Head(matches).word,
                  position |-> Head(matches).start,
                  length |-> Head(matches).end - Head(matches).start]>>
          ELSE <<>>)
         \o errors_of(t, provider, Tail(matches))

\* provider.check_text(text, language).  raises: the library call under it
\* throws.  An unavailable provider raises SpellCheckerNotAvailableError;
\* only NeuspellProvider catches what its library throws.
check_text(t, provider, text, raises) ==
    IF ~provider.available
    THEN [raised |-> TRUE, errors |-> <<>>, engine |-> provider_name(t)]
    ELSE IF raises
    THEN [raised |-> t # "neuspell", errors |-> <<>>,
          engine |-> provider_name(t)]
    ELSE [raised |-> FALSE,
          errors |-> errors_of(t, provider,
                               scan_matches(text, 1, <<>>, <<>>)),
          engine |-> provider_name(t)]

\* provider.check_lines(lines, language): results by 0-based line number
\* for the lines that are not blank; the first check_text that raises
\* ends the call
RECURSIVE check_lines_from(_, _, _, _, _)
check_lines_from(t, provider, lines, line_num, raises) ==
    IF line_num >= Len(lines)
    THEN [raised |-> FALSE, results |-> NoErrors]
    ELSE LET line_text == lines[line_num + 1]
             result == check_text(t, provider, line_text, raises)
             rest == check_lines_from(t, provider, lines, line_num + 1,
                                      raises)
         IN  IF strip(line_text) = <<>> THEN rest
             ELSE IF result.raised \/ rest.raised
             THEN [raised |-> TRUE, results |-> NoErrors]
             ELSE [raised |-> FALSE,
                   results |->
                       [n \in DOMAIN rest.results \cup {line_num} |->
                           IF n = line_num THEN result
                           ELSE rest.results[n]]]

\* spell_checker_factory.check_lines(lines, checker_type, language):
\* checker_type "none" is None.  The results, the provider type that was
\* asked and self._instances afterwards.
factory_check_lines(inst, initd, lines, checker_type, language, raises) ==
    LET sel == IF checker_type # "none"
               THEN get_checker(inst, checker_type, language)
               ELSE get_best_checker(inst, initd, language)
        run == check_lines_from(sel.key[1], sel.instances[sel.key],
                               lines, 0, raises)
    IN  IF sel.key = NoChecker
        THEN [results |-> NoErrors, checker |-> "none",
              instances |-> sel.instances]
        ELSE IF run.raised
        THEN [results |-> NoErrors, checker |-> sel.key[1],
              instances |-> sel.instances]
        ELSE [results |-> run.results, checker |-> sel.key[1],
              instances |-> sel.instances]

\* the errors map that keeps a line whether or not it has errors
errors_of_every_line(results) ==
    [n \in DOMAIN results |-> results[n].errors]

\* the errors map of the response: the results that have errors
errors_by_line(results) ==
    [n \in {m \in DOMAIN results : results[m].errors # <<>>}
        |-> results[n].errors]

\* SpellcheckEventHandler._process_message (backend) for a validated
\* request.  raises needs a provider that calls its library.  checked,
\* found and checked_by record the lines the provider checked, the number
\* of errors it found in each, and the provider.
spellcheck_request(lines, engine, language, raises) ==
    LET checker_type == IF engine # NoEngine
                        THEN SpellCheckerType_of(lower(engine))
                        ELSE "none"
        done == factory_check_lines(instances, initialized_providers,
                                    lines, checker_type, language, raises)
        results == done.results
        errors == errors_by_line(results)
        first_line == CHOOSE n \in DOMAIN results :
                          \A m \in DOMAIN results : n <= m
        engine_used == IF DOMAIN results = {} THEN "none"
                       ELSE results[first_line].engine
    IN  /\ raises => /\ done.checker # "none"
                     /\ done.instances[<<done.checker, language>>].available
        /\ s_response' =
               [NoSpellcheck EXCEPT
                   !.lines = lines, !.engine = engine,
                   !.language = language, !.raises = raises,
                   !.answered = TRUE, !.success = TRUE,
                   !.errors = errors, !.lines_checked = Len(lines),
                   !.engine_used = engine_used,
                   !.checked = DOMAIN results,
                   !.found = [n \in DOMAIN results |->
                                 Len(results[n].errors)],
                   !.checked_by = IF DOMAIN results = {} THEN "none"
                                  ELSE provider_name(done.checker)]
        /\ instances' = done.instances
        /\ UNCHANGED <<initialized_providers, default_language, d_last>>
        /\ UNCHANGED <<l_s_response, p_response>>
        /\ UNCHANGED <<routerVars, legacyVars, cacheVars,
                       serverVars, endpointVars, taskVars>>

\* ---- spell-check frames of the backend endpoint, in both formats --------

\* a frame without a "lines" member
NoLines == <<<<"<absent>">>>>

\* a frame whose "lines" is null or a string
BadLines == <<<<"<not-a-list>">>>>

\* a frame without a "language" member
NoLanguage == "<absent>"

NoAnswer == [format |-> "none", lines |-> <<>>, language |-> NoLanguage,
             raises |-> FALSE, success |-> FALSE, errors |-> NoErrors]

\* SpellcheckEventHandler.handle_message for a raw message with these
\* "lines" and "language": the schema requires a list of lines and gives
\* language the default "en"
spellcheck_message(inst, initd, lines, language, raises) ==
    LET done == factory_check_lines(
                    inst, initd, lines, "none",
                    IF language = NoLanguage THEN "en" ELSE language, raises)
    IN  IF lines \in {NoLines, BadLines}
        THEN [success |-> FALSE, errors |-> NoErrors, instances |-> inst]
        ELSE [success |-> TRUE, errors |-> errors_by_line(done.results),
              instances |-> done.instances]

\* the endpoint routes a frame {message_key: "spellcheck_request", lines,
\* language} to the handler
eda_spell_check(lines, language, raises) ==
    LET eda_response == spellcheck_message(instances, initialized_providers,
                                           lines, language, raises)
    IN  /\ raises => get_best_checker(instances, initialized_providers,
                                      "en").key # NoChecker
        /\ f_response' = [format |-> "eda", lines |-> lines,
                          language |-> language, raises |-> raises,
                          success |-> eda_response.success,
                          errors |-> eda_response.errors]
        /\ instances' = eda_response.instances
        /\ UNCHANGED <<initialized_providers, default_language, d_last>>
        /\ UNCHANGED <<accepted, l_accepted, l_active_connections, e_last>>
        /\ UNCHANGED <<routerVars, legacyVars, cacheVars, handlerVars,
                       serverVars, taskVars>>

\* the eda_message handle_legacy_spell_check builds from a frame
\* {type: "spell_check_request", lines, language}
legacy_to_eda(lines, language) ==
    [lines |-> IF lines = NoLines THEN <<>> ELSE lines,
     language |-> IF language = NoLanguage THEN "en" ELSE language]

\* handle_legacy_spell_check(message, websocket)
handle_legacy_spell_check(lines, language, raises) ==
    LET eda_message == legacy_to_eda(lines, language)
        eda_response == spellcheck_message(instances, initialized_providers,
                                           eda_message.lines,
                                           eda_message.language, raises)
    IN  /\ raises => get_best_checker(instances, initialized_providers,
                                      "en").key # NoChecker
        /\ f_response' = [format |-> "legacy", lines |-> lines,
                          language |-> language, raises |-> raises,
                          success |-> eda_response.success,
                          errors |-> IF eda_response.success
                                     THEN eda_response.errors ELSE NoErrors]
        /\ instances' = eda_response.instances
        /\ UNCHANGED <<initialized_providers, default_language, d_last>>
        /\ UNCHANGED <<accepted, l_accepted, l_active_connections, e_last>>
        /\ UNCHANGED <<routerVars, legacyVars, cacheVars, handlerVars,
                       serverVars, taskVars>>

\* ---- root-level SpellcheckEventHandler over main.spell_check_line -------

s_default == <<"d", "e", "f", "a", "u", "l", "t">>

\* spell_check_line(line_text, language) as a function of the table: the
\* errors it returns, the table afterwards, whether the result came from
\* the table, and the engine calls it made
spell_check_line_on(cache, line_text, raises) ==
    LET engine == preferred_engine(user_settings)
        line_hash == fingerprint(line_text, engine)
        cached == cached_result(cache, line_hash)
        row == CHOOSE r \in cached : TRUE
        custom_words == {lower(w) : w \in user_dictionary}
        fresh == check_words(line_text, findall_words(line_text), 0,
                             custom_words, engine,
                             [available |-> HUNSPELL_AVAILABLE,
                              raises |-> raises])
    IN  IF strip(line_text) = <<>>
        THEN [errors |-> <<>>, cache |-> cache, hit |-> FALSE, calls |-> 0]
        ELSE IF cached # {}
        THEN [errors |-> IF row.errors_json # <<>>
                         THEN json_loads(row.errors_json)
                         ELSE <<>>,
              cache |-> cache, hit |-> TRUE, calls |-> 0]
        ELSE [errors |-> fresh.errors,
              cache |-> insert_or_replace(cache,
                            [line_hash |-> line_hash,
                             line_text |-> line_text,
                             errors_json |-> json_dumps(fresh.errors),
                             written_by |-> engine]),
              hit |-> FALSE, calls |-> fresh.calls]

\* the engine whose answers spell_check_word_with_engine returns
engine_in_use(raises) ==
    IF /\ preferred_engine(user_settings) = s_hunspell
       /\ HUNSPELL_AVAILABLE
       /\ ~raises
    THEN s_hunspell
    ELSE s_pyspellchecker

\* the loop of _process_message over enumerate(message.lines)
RECURSIVE l_check_from(_, _, _, _)
l_check_from(cache, lines, line_index, raises) ==
    IF line_index >= Len(lines)
    THEN [all_errors |-> NoErrors, lines_processed |-> 0, cache |-> cache,
          checked |-> {}, found |-> NoErrors, produced_by |-> {}]
    ELSE LET line_text == lines[line_index + 1]
             one == spell_check_line_on(cache, line_text, raises)
             rest == l_check_from(one.cache, lines, line_index + 1, raises)
             skip == l_check_from(cache, lines, line_index + 1, raises)
         IN  IF strip(line_text) = <<>> THEN skip
             ELSE [all_errors |->
                       IF one.errors # <<>>
                       THEN [n \in DOMAIN rest.all_errors \cup {line_index}
                                |-> IF n = line_index THEN one.errors
                                    ELSE rest.all_errors[n]]
                       ELSE rest.all_errors,
                   lines_processed |-> rest.lines_processed + 1,
                   cache |-> rest.cache,
                   checked |-> rest.checked \cup {line_index},
                   found |->
                       [n \in DOMAIN rest.found \cup {line_index} |->
                           IF n = line_index THEN Len(one.errors)
                           ELSE rest.found[n]],
                   produced_by |->
                       rest.produced_by \cup
                       (IF one.calls > 0 THEN {engine_in_use(raises)}
                        ELSE {})]

\* SpellcheckEventHandler._process_message (root level) for a validated
\* request.  checked records the lines given to spell_check_line, found
\* the number of errors it returned for each and produced_by the engines
\* that answered for them in this request.
l_spellcheck_request(lines, engine, raises) ==
    LET done == l_check_from(spell_cache, lines, 0, raises)
    IN  /\ raises => /\ preferred_engine(user_settings) = s_hunspell
                     /\ HUNSPELL_AVAILABLE
        /\ Cardinality(done.cache) <= MaxCache
        /\ spell_cache' = done.cache
        /\ l_s_response' =
               [l_NoSpellcheck EXCEPT
                   !.lines = lines, !.engine = engine, !.raises = raises,
                   !.answered = TRUE, !.success = TRUE,
                   !.errors = done.all_errors,
                   !.lines_checked = done.lines_processed,
                   !.engine_used = IF engine # NoEngine THEN engine
                                   ELSE s_default,
                   !.checked = done.checked,
                   !.found = done.found,
                   !.produced_by = done.produced_by]
        /\ UNCHANGED <<user_dictionary, user_settings, HUNSPELL_AVAILABLE,
                       last>>
        /\ UNCHANGED <<s_response, p_response>>
        /\ UNCHANGED <<routerVars, legacyVars, dictVars,
                       serverVars, endpointVars, taskVars>>

\* ---- calls of the factory and of a provider -----------------------------

\* initialize_all(language) on a factory that was initialized before: a
\* provider whose initialize() fails now keeps the instance it had
initialize_all_again(language, ok) ==
    /\ DOMAIN initialized_providers # {}
    /\ default_language' = language
    /\ instances' =
           [k \in DOMAIN instances \cup {<<t, language>> : t \in ok} |->
               IF k[1] \in ok /\ k[2] = language
               THEN initialized_provider(k[1])
               ELSE instances[k]]
    /\ initialized_providers' = [t \in Range(SpellCheckerType) |-> t \in ok]
    /\ d_last' = [NoDictCall EXCEPT !.operation = "initialize_all",
                                    !.language = language]
    /\ UNCHANGED <<routerVars, legacyVars, cacheVars, handlerVars,
                   serverVars, endpointVars, taskVars>>

\* a call of get_checker(t, language), get_status() or
\* get_best_checker(language); d_last.checker is the type of the provider
\* get_best_checker returned, "none" for None
factory_call(operation, t, language) ==
    LET got == get_checker(instances, t, language)
        listed == get_status(instances, initialized_providers,
                             default_language)
        best == get_best_checker(instances, initialized_providers, language)
        call == [NoDictCall EXCEPT !.operation = operation,
                                   !.language = language]
    IN  /\ operation \in {"get_checker", "get_status", "get_best_checker"}
        /\ IF operation = "get_checker"
           THEN /\ instances' = got.instances
                /\ d_last' = [call EXCEPT !.checker = t]
           ELSE IF operation = "get_status"
           THEN /\ instances' = listed.instances
                /\ d_last' = [call EXCEPT !.status = listed.status]
           ELSE /\ instances' = best.instances
                /\ d_last' = [call EXCEPT !.checker = best.key[1]]
        /\ UNCHANGED <<initialized_providers, default_language>>
        /\ UNCHANGED <<routerVars, legacyVars, cacheVars, handlerVars,
                       serverVars, endpointVars, taskVars>>

\* get_checker(t, language).check_text(text, language): d_last.success
\* says that the call returned, d_last.result that it returned no errors
provider_check_text(t, language, text, raises) ==
    LET got == get_checker(instances, t, language)
        checked == check_text(t, got.instances[got.key], text, raises)
    IN  /\ raises => got.instances[got.key].available
        /\ instances' = got.instances
        /\ d_last' = [NoDictCall EXCEPT
                         !.operation = "check_text", !.word = text,
                         !.language = language, !.raises = raises,
                         !.checker = t,
                         !.success = ~checked.raised,
                         !.result = ~checked.raised
                                    /\ checked.errors = <<>>]
        /\ UNCHANGED <<initialized_providers, default_language>>
        /\ UNCHANGED <<routerVars, legacyVars, cacheVars, handlerVars,
                       serverVars, endpointVars, taskVars>>

\* ---- backend PredictionEventHandler --------------------------------------

\* the registry of backend.engines.prediction_engines
PREDICTION_ENGINES == {"frequency_based", "statistical"}

\* get_prediction_engine(engine_name): the engine, "none" for no engine
get_prediction_engine(engine_name) ==
    IF engine_name \in PREDICTION_ENGINES THEN engine_name ELSE "none"

\* engine.get_next_tokens(text, max_tokens=max_predictions)
get_next_tokens(engine, text, max_tokens) ==
    take(IF engine = "statistical" THEN <<s_the, s_ten, s_teh>>
         ELSE IF text = <<>> THEN <<s_the>>
         ELSE <<s_ten, s_the>>,
         max_tokens)

\* engine names sent in prediction requests; "none" is an absent name
PredictionEngineNames ==
    PREDICTION_ENGINES \cup {"none", "traditional", "frequency"}

\* a response that serves an unknown engine name with the default engine
prediction_response_fallback(engine_name, text, max_predictions, raises) ==
    LET engine == IF get_prediction_engine(engine_name) = "none"
                  THEN "frequency_based"
                  ELSE engine_name
    IN  IF raises
        THEN [NoPrediction EXCEPT !.error_message = TRUE]
        ELSE [NoPrediction EXCEPT
                 !.success = TRUE,
                 !.predictions = get_next_tokens(engine, text,
                                                 max_predictions),
                 !.engine_used = engine]

\* the PredictionResponse of _process_message for an engine name; raises:
\* get_next_tokens throws
prediction_response(engine_name, text, max_predictions, raises) ==
    LET engine == get_prediction_engine(engine_name)
    IN  IF engine = "none"
        THEN [NoPrediction EXCEPT
                 !.error_message = TRUE,
                 !.available_engines = PREDICTION_ENGINES]
        ELSE IF raises
        THEN [NoPrediction EXCEPT !.error_message = TRUE]
        ELSE [NoPrediction EXCEPT
                 !.success = TRUE,
                 !.predictions = get_next_tokens(engine, text,
                                                 max_predictions),
                 !.engine_used = engine_name]

\* PredictionEventHandler._process_message for a validated request
prediction_request(text, max_predictions, engine, raises) ==
    LET engine_name == IF engine = "none" THEN "frequency_based"
                       ELSE engine
    IN  /\ raises => get_prediction_engine(engine_name) # "none"
        /\ p_response' =
               [prediction_response(engine_name, text, max_predictions,
                                    raises)
                   EXCEPT !.text = text, !.engine = engine,
                          !.max_predictions = max_predictions,
                          !.raises = raises, !.answered = TRUE]
        /\ UNCHANGED <<s_response, l_s_response>>
        /\ UNCHANGED <<routerVars, legacyVars, cacheVars, dictVars,
                       serverVars, endpointVars, taskVars>>

\* ---- health check handlers ----------------------------------------------

\* message.component is None
NoComponent == "none"

Components == {NoComponent, "spellcheckers", "prediction_engines"}

NoHealth == [handler |-> "none", component |-> NoComponent,
             detailed |-> FALSE, success |-> FALSE, status |-> "none",
             components |-> {}]

\* overall_status as a function of the counts of the spellchecker component
overall_status(available_count, total_count) ==
    IF available_count = 0 THEN "unhealthy"
    ELSE IF available_count < total_count THEN "degraded"
    ELSE "healthy"

\* backend HealthCheckEventHandler._process_message for a validated request
health_request(component, detailed) ==
    LET spellcheckers == component \in {NoComponent, "spellcheckers"}
        prediction_engines == component \in {NoComponent, "prediction_engines"}
        spell_status == get_status(instances, initialized_providers,
                                   default_language)
        available_count ==
            Cardinality({st \in spell_status.status : st.available})
        total_count == Cardinality(spell_status.status)
    IN  /\ h_response' =
              [handler |-> "backend", component |-> component,
               detailed |-> detailed, success |-> TRUE,
               status |-> IF spellcheckers
                          THEN overall_status(available_count, total_count)
                          ELSE "healthy",
               components |->
                   (IF spellcheckers THEN {"spellcheckers"} ELSE {})
                   \cup (IF prediction_engines
                         THEN {"prediction_engines"} ELSE {})]
        /\ instances' = IF spellcheckers THEN spell_status.instances
                        ELSE instances
        /\ UNCHANGED <<initialized_providers, default_language, d_last>>
        /\ UNCHANGED <<active_connections, b_last>>
        /\ UNCHANGED <<routerVars, legacyVars, cacheVars, handlerVars,
                       endpointVars, taskVars>>

\* root-level HealthCheckEventHandler._process_message (additional_handlers.py)
l_health_check(include_stats) ==
    /\ h_response' = [handler |-> "root", component |-> NoComponent,
                      detailed |-> include_stats, success |-> TRUE,
                      status |-> "healthy", components |-> {}]
    /\ UNCHANGED <<active_connections, b_last>>
    /\ UNCHANGED <<routerVars, legacyVars, cacheVars, dictVars, handlerVars,
                   endpointVars, taskVars>>

-----------------------------------------------------------------------------
InitRouter ==
    /\ handlers = << >>
    /\ subscriptions = << >>
    /\ websockets = {}
    /\ request = NoRequest
    /\ response = NoResponse
    /\ invoked = NoHandler
    /\ processed = FALSE
    /\ unanswered = {}

InitLegacy ==
    /\ l_handlers = << >>
    /\ l_subscriptions = << >>
    /\ l_request = NoRequest
    /\ l_response = NoResponse
    /\ l_invoked = NoHandler
    /\ l_processed = FALSE

InitCache ==
    /\ spell_cache = {}
    /\ user_dictionary = {}
    /\ user_settings = s_pyspellchecker
    /\ HUNSPELL_AVAILABLE \in BOOLEAN
    /\ last = NoCall

InitDict ==
    /\ instances = NoInstances
    /\ initialized_providers = NoProviders
    /\ default_language = "en"
    /\ d_last = NoDictCall

InitHandlers ==
    /\ s_response = NoSpellcheck
    /\ l_s_response = l_NoSpellcheck
    /\ p_response = NoPrediction

InitServer ==
    /\ active_connections = {}
    /\ b_last = NoBroadcast
    /\ h_response = NoHealth

InitEndpoints ==
    /\ accepted = {}
    /\ l_accepted = {}
    /\ l_active_connections = {}
    /\ e_last = NoFrame
    /\ f_response = NoAnswer

InitTasks ==
    /\ tasks = NoTasks
    /\ x_last = NoEngineCall
    /\ initialized_engines = NoEngines
    /\ engines_created = [name \in EngineClasses |-> 0]
    /\ engines_initialized = {}
    /\ g_last = NoGetEngine
    /\ b_task = NoBroadcastTask

Init ==
    /\ InitRouter /\ InitLegacy /\ InitCache /\ InitDict /\ InitHandlers
    /\ InitServer /\ InitEndpoints /\ InitTasks

\* handler registration and routing of the backend router
NextRouter ==
    \/ \E h \in HandlerIds : register_handler(h)
    \/ \E k \in Keys : unregister_handler(k)
    \/ \E m \in Messages, ws \in Connections, o \in Outcomes :
          route_message(m, ws, o)

SpecRouter == Init /\ [][NextRouter]_vars

\* connection management of the backend router and of the root-level one
NextConn ==
    \/ \E ws \in Connections : connect(ws)
    \/ \E ws \in Connections : disconnect(ws)
    \/ \E ws \in Connections, ts \in SUBSET Topics : subscribe(ws, ts)
    \/ \E ws \in Connections, ts \in SUBSET Topics : unsubscribe(ws, ts)
    \/ \E ws \in Connections, ts \in SUBSET Topics : l_subscribe(ws, ts)
    \/ \E ws \in Connections, ts \in SUBSET Topics : l_unsubscribe(ws, ts)
    \/ \E ws \in Connections : l_disconnect(ws)

SpecConn == Init /\ [][NextConn]_vars

\* the root-level router
NextLegacy ==
    \/ \E h \in HandlerIds : l_register_handler(h)
    \/ \E ws \in Connections, ts \in SUBSET Topics : l_subscribe(ws, ts)
    \/ \E ws \in Connections, ts \in SUBSET Topics : l_unsubscribe(ws, ts)
    \/ \E ws \in Connections : l_disconnect(ws)
    \/ \E m \in Messages, ws \in Connections, o \in Outcomes :
          l_route_message(m, ws, o)

SpecLegacy == Init /\ [][NextLegacy]_vars

\* main.py: spell checks, dictionary edits and engine changes
NextCache ==
    \/ \E line_text \in Lines, raises \in BOOLEAN :
           spell_check_line(line_text, raises)
    \/ \E word \in Words : add_word_to_dictionary(word)
    \/ \E word \in Words : remove_word_from_dictionary(word)
    \/ \E value \in EngineValues \cup {NoSetting} : update_settings(value)
    \/ \E value \in EngineValues : set_user_setting(value)

SpecCache == Init /\ [][NextCache]_vars

\* main.py: concurrent spell checks while words are added
NextAdds ==
    \/ \E t \in Tasks, line_text \in TaskLines :
           call_spell_check_line(t, line_text)
    \/ \E t \in Tasks : select_cached_result(t)
    \/ \E t \in Tasks : select_user_dictionary(t)
    \/ \E t \in Tasks, raises \in BOOLEAN : insert_errors(t, raises)
    \/ \E word \in TaskWords : add_word_to_dictionary(word)

SpecAdds == Init /\ [][NextAdds]_vars

\* main.py: concurrent spell checks while words are added and removed
NextInterleaved ==
    \/ \E t \in Tasks, line_text \in TaskLines :
           call_spell_check_line(t, line_text)
    \/ \E t \in Tasks : select_cached_result(t)
    \/ \E t \in Tasks : select_user_dictionary(t)
    \/ \E t \in Tasks, raises \in BOOLEAN : insert_errors(t, raises)
    \/ \E word \in TaskWords : add_word_to_dictionary(word)
    \/ \E word \in TaskWords : remove_word_from_dictionary(word)

SpecInterleaved == Init /\ [][NextInterleaved]_vars

\* the spell-check engines, called with one misspelled word
NextSuggestions ==
    \E engine \in SuggestionEngines, n \in CandidateCounts,
       word_upper \in BOOLEAN, in_sentence \in BOOLEAN :
        \E corrected_at \in 0..n :
            check_sentence(engine, n, corrected_at, word_upper, in_sentence)

SpecSuggestions == Init /\ [][NextSuggestions]_vars

\* predictions for a text and a cursor
NextCursor ==
    \E engine \in PredictionFunctions,
       current_text \in {<<>>, s_the, s_Teh, s_the_Teh, s_zoe},
       cursor \in (0 - MaxCursor)..MaxCursor :
        predict_next_tokens(engine, current_text, cursor)

SpecCursor == Init /\ [][NextCursor]_vars

\* the root-level router used by connections that never call subscribe
NextOpen ==
    \/ \E h \in HandlerIds : l_register_handler(h)
    \/ \E ws \in Connections : l_disconnect(ws)
    \/ \E m \in Messages, ws \in Connections, o \in Outcomes :
          l_route_message(m, ws, o)

SpecOpen == Init /\ [][NextOpen]_vars

\* get_engine calls
NextEngines ==
    \E engine_name \in EngineNames, ok \in BOOLEAN :
        get_engine(engine_name, ok)

SpecEngines == Init /\ [][NextEngines]_vars

\* a router broadcast while other tasks use the router
NextSuspended ==
    \/ \E ws \in Connections : connect(ws)
    \/ \E ws \in Connections : disconnect(ws)
    \/ \E ws \in Connections, t \in Topics : subscribe(ws, {t})
    \/ \E ws \in Connections, t \in Topics : unsubscribe(ws, {t})
    \/ \E t \in Topics : start_broadcast(t)
    \/ \E fails \in BOOLEAN : resume_broadcast(fails)

SpecSuspended == Init /\ [][NextSuspended]_vars

\* the line lists of spellcheck requests
LineLists ==
    {<<>>, <<s_blank>>, <<s_the>>, <<s_the_Teh, s_blank>>,
     <<s_blank, s_the_Teh>>, <<s_the, s_the_Teh>>}

\* the language of spellcheck requests: the default of the request schema
RequestLanguages == {"en"}

\* the provider types whose initialize() succeeds, by environment
Environments ==
    {{}, {"pyspellchecker"}, {"pyspellchecker", "hunspell"},
     {"autocorrect", "neuspell"}}

\* the backend application has not run
BackendIdle ==
    /\ instances = NoInstances
    /\ initialized_providers = NoProviders
    /\ d_last = NoDictCall
    /\ s_response = NoSpellcheck

\* the root-level application has not run
RootIdle ==
    /\ spell_cache = {}
    /\ user_dictionary = {}
    /\ user_settings = s_pyspellchecker
    /\ l_s_response = l_NoSpellcheck

\* spellcheck requests: a process runs the backend application
\* (backend/api/main.py over the factory) or the root-level one (main.py)
NextSpellcheck ==
    \/ /\ RootIdle
       /\ \/ \E language \in Languages, ok \in Environments :
                 initialize_all(language, ok)
          \/ cleanup_all
          \/ \E lines \in LineLists, engine \in RequestEngines,
                language \in RequestLanguages, raises \in BOOLEAN :
                 spellcheck_request(lines, engine, language, raises)
    \/ /\ BackendIdle
       /\ \/ \E value \in {s_pyspellchecker, s_hunspell} :
                 set_user_setting(value)
          \/ \E lines \in LineLists, engine \in RequestEngines,
                raises \in BOOLEAN :
                 l_spellcheck_request(lines, engine, raises)

SpecSpellcheck == Init /\ [][NextSpellcheck]_vars

\* prediction requests
NextPrediction ==
    \E text \in {<<>>, s_the, s_the_Teh, s_zoe}, max_predictions \in 0..3,
       engine \in PredictionEngineNames, raises \in BOOLEAN :
        prediction_request(text, max_predictions, engine, raises)

SpecPrediction == Init /\ [][NextPrediction]_vars

\* health requests against the backend factory after its startup and against
\* the root-level application
NextHealth ==
    \/ \E language \in Languages,
          ok \in Environments \cup {Range(SpellCheckerType)} :
           initialize_all(language, ok)
    \/ cleanup_all
    \/ \E component \in Components, detailed \in BOOLEAN :
           health_request(component, detailed)
    \/ \E include_stats \in BOOLEAN : l_health_check(include_stats)

SpecHealth == Init /\ [][NextHealth]_vars

\* the websocket endpoints: a process runs the backend application, with
\* the handlers api/routes/websocket.py registers, or main.py
NextEndpoint ==
    \/ /\ l_active_connections = {}
       /\ e_last.app # "root"
       /\ \/ \E h \in {"h1", "h3"} : register_handler(h)
          \/ \E ws \in Connections : e_open(ws)
          \/ \E ws \in Connections, frame \in Frames : e_receive(ws, frame)
          \/ \E ws \in Connections : e_close(ws)
    \/ /\ accepted = {}
       /\ DOMAIN handlers = {}
       /\ e_last.app # "backend"
       /\ \/ \E ws \in Connections : l_e_open(ws)
          \/ \E ws \in Connections, kind \in l_FrameKinds,
                complete \in BOOLEAN : l_e_receive(ws, kind, complete)
          \/ \E ws \in Connections : l_e_close(ws)

SpecEndpoint == Init /\ [][NextEndpoint]_vars

\* spell-check frames in the canonical and in the legacy format, against
\* the factory after its startup
FrameLines == LineLists \cup {NoLines, BadLines}

NextFormats ==
    \/ \E ok \in Environments : initialize_all("en", ok)
    \/ cleanup_all
    \/ \E lines \in FrameLines, language \in {"en", NoLanguage},
          raises \in BOOLEAN : eda_spell_check(lines, language, raises)
    \/ \E lines \in FrameLines, language \in {"en", NoLanguage},
          raises \in BOOLEAN :
           handle_legacy_spell_check(lines, language, raises)

SpecFormats == Init /\ [][NextFormats]_vars

\* broadcasts: a process runs the backend application (connection manager
\* over the event router) or the root-level router
NextBroadcast ==
    \/ /\ l_subscriptions = << >>
       /\ b_last.by # "broadcast_to_topic"
       /\ \/ \E ws \in Connections : manager_connect(ws)
          \/ \E ws \in Connections : manager_disconnect(ws)
          \/ \E ws \in Connections, t \in Topics : subscribe(ws, {t})
          \/ \E t \in Topics, failing \in SUBSET Connections :
                 broadcast_to_subscribers(t, failing)
          \/ \E exclude \in Connections \cup {NoWebSocket},
                failing \in SUBSET Connections :
                 manager_broadcast(exclude, failing)
    \/ /\ subscriptions = << >>
       /\ websockets = {}
       /\ active_connections = {}
       /\ b_last.by \in {"none", "broadcast_to_topic"}
       /\ \/ \E ws \in Connections, t \in Topics : l_subscribe(ws, {t})
          \/ \E ws \in Connections, t \in Topics : l_unsubscribe(ws, {t})
          \/ \E t \in Topics, exclude \in Connections \cup {NoWebSocket},
                failing \in SUBSET Connections :
                 broadcast_to_topic(t, exclude, failing)

SpecBroadcast == Init /\ [][NextBroadcast]_vars

\* the factory and its providers, called directly
NextFactory ==
    \/ \E language \in Languages, ok \in Environments :
           initialize_all(language, ok)
    \/ \E language \in Languages, ok \in Environments :
           initialize_all_again(language, ok)
    \/ cleanup_all
    \/ \E operation \in {"get_checker", "get_status", "get_best_checker"},
          t \in {"hunspell"}, language \in Languages :
           factory_call(operation, t, language)
    \/ \E t \in {"pyspellchecker", "neuspell"}, language \in {"en"},
          text \in {s_the, s_the_Teh}, raises \in BOOLEAN :
           provider_check_text(t, language, text, raises)

SpecFactory == Init /\ [][NextFactory]_vars

\* backend factory and dictionary handler
NextDict ==
    \/ \E language \in Languages, ok \in SUBSET Range(SpellCheckerType) :
           initialize_all(language, ok)
    \/ cleanup_all
    \/ \E operation \in Operations, word \in DictWords \cup {NoWord},
          language \in Languages, raises \in BOOLEAN :
           dictionary_request(operation, word, language, raises)

SpecDict == Init /\ [][NextDict]_vars

-----------------------------------------------------------------------------
(* Claims about routing *)

\* C1: a message with key k and a schema-valid payload is answered
\* success=false, message_key "error" and the list of the registered keys
\* while no handler is bound to k; once a handler is bound to k the same
\* message is dispatched to that handler and the answer is the handler's
\* own response, success=true when its processing succeeds.
C1_RouterDispatch ==
    [][\A m \in Messages, ws \in Connections, o \in Outcomes :
         (route_message(m, ws, o) /\ m.message_key \in Keys
            /\ schema_valid(m))
         => IF m.message_key \notin DOMAIN handlers
            THEN /\ response'.kind = "response"
                 /\ ~response'.success
                 /\ response'.message_key = "error"
                 /\ response'.available_handlers = DOMAIN handlers
                 /\ invoked' = NoHandler
                 /\ ~processed'
            ELSE /\ invoked' = handlers[m.message_key]
                 /\ processed'
                 /\ response'.kind = "response"
                 /\ response'.message_key # "error"
                 /\ o = "ok" =>
                       /\ response'.success
                       /\ response'.source = handlers[m.message_key]
                       /\ response'.message_key =
                             response_key(m.message_key)]_vars

\* the last routed key was first answered "no handler" and is now answered
\* by the handler registered since
C1_Witness ==
    /\ request.message_key \in unanswered
    /\ response.success
    /\ response.source \in HandlerIds
    /\ invoked = response.source

\* C2: route_message never raises: every message gets a structured
\* response, and the response has success=false when the key is unknown
\* or the handler failed.
C2_RouteNeverRaises ==
    /\ response.kind # "raised"
    /\ (response.kind = "response" /\ request.message_key \in KeyValues
          /\ invoked = NoHandler) => ~response.success

\* C3: a message without message_key is answered success=false with
\* message_key "error", reaches no handler, and leaves the registry and the
\* subscription sets as they were.
C3_MissingKeyRejected ==
    [][\A m \in Messages, ws \in Connections, o \in Outcomes :
         (l_route_message(m, ws, o) /\ m.message_key = NoKey)
         => /\ l_response'.kind = "response"
            /\ ~l_response'.success
            /\ l_response'.message_key = "error"
            /\ l_invoked' = NoHandler
            /\ ~l_processed'
            /\ UNCHANGED <<l_handlers, l_subscriptions>>]_vars

\* C4: for a payload that violates the schema of the handler bound to its
\* key, the handler returns success=false, echoes the raw correlation_id
\* and does not run _process_message.
C4_SchemaViolationAnswered ==
    [][\A m \in Messages, ws \in Connections, o \in Outcomes :
         (route_message(m, ws, o) /\ m.message_key \in DOMAIN handlers
            /\ ~schema_valid(m))
         => LET r == handle_message(handlers[m.message_key], m, o)
            IN  /\ r.kind = "response"
                /\ ~r.success
                /\ r.correlation_id = m.correlation_id
                /\ ~processed']_vars

\* C5: the response to a routed request carries the request's
\* correlation_id, and null when the request carried none.
C5_CorrelationEchoed ==
    response.kind = "response" =>
        response.correlation_id = request.correlation_id

-----------------------------------------------------------------------------
\* Claims about the cache of main.py (SpecCache)

\* C6: when spell_check_line is called for the line the previous operation
\* was a spell_check_line of, nothing having happened in between, it returns
\* the same error list, makes no spell_check_word_with_engine call, and for
\* a non-blank line is answered from the spell_cache row, which it leaves as
\* it is.
C6_RepeatServedFromCache ==
    [][\A line_text \in Lines, raises \in BOOLEAN :
          (/\ last.op = "spell_check_line"
           /\ last.arg = line_text
           /\ spell_check_line(line_text, raises))
          => /\ last'.result = last.result
             /\ last'.engine_calls = 0
             /\ strip(line_text) # <<>> =>
                   /\ last'.hit
                   /\ spell_cache' = spell_cache
                   /\ cached_result(spell_cache,
                          fingerprint(line_text,
                              preferred_engine(user_settings))) # {}]_vars

\* a second call in a row was answered from the cache, with a non-empty
\* error list
C6_Witness ==
    /\ last.op = "spell_check_line"
    /\ last.repeat
    /\ last.hit
    /\ last.engine_calls = 0
    /\ last.result # <<>>

\* C7: a spell_check_line that directly follows add_word_to_dictionary(w),
\* for a line whose cached result reported w when the add ran, reports no
\* error for w.
C7_AddSuppresses ==
    [][\A line_text \in Lines, raises \in BOOLEAN :
          (/\ last.op = "add_word_to_dictionary"
           /\ line_text \in last.flagged
           /\ spell_check_line(line_text, raises))
          => ~flags(last'.result, last.arg)]_vars

\* C8: the row a spell_check_line reads or writes was written for the same
\* line text under the same engine name, and the table never holds two rows
\* with one fingerprint or two rows for one (text, engine) pair.
C8_FingerprintSeparates ==
    [][/\ \A line_text \in Lines, raises \in BOOLEAN :
            (/\ strip(line_text) # <<>>
             /\ last'.op = "spell_check_line"
             /\ last'.arg = line_text
             /\ spell_check_line(line_text, raises))
            => \A row \in spell_cache \cup spell_cache' :
                  row.line_hash =
                      fingerprint(line_text, preferred_engine(user_settings))
                  => /\ row.line_text = line_text
                     /\ row.written_by = preferred_engine(user_settings)
       /\ \A r1, r2 \in spell_cache' :
            (\/ r1.line_hash = r2.line_hash
             \/ /\ r1.line_text = r2.line_text
                /\ r1.written_by = r2.written_by)
            => r1 = r2]_vars

\* C9: every step that changes the spell_checker_engine setting leaves the
\* spell_cache table empty.
C9_EngineChangeClearsCache ==
    [][user_settings' # user_settings => spell_cache' = {}]_vars

-----------------------------------------------------------------------------
\* Claims about the dictionary handler (SpecDict)

\* C10: with a provider available to serve the requests and no library call
\* raising, a check(w) that directly follows add(w) for the same language
\* reports true, and a check(w) that directly follows remove(w), for a word
\* the providers do not know, reports false.
C10_DictionaryRoundTrip ==
    [][\A word \in DictWords, language \in Languages :
          (/\ d_last.word = word
           /\ d_last.language = language
           /\ d_last.success
           /\ ~d_last.raises
           /\ d_last.checker # "none"
           /\ dictionary_request("check", word, language, FALSE))
          => /\ d_last.operation = "add" => d_last'.result
             /\ (d_last.operation = "remove" /\ word = s_Teh)
                    => ~d_last'.result]_vars

\* C11: every error a spell_check_line call returns for a line lies inside
\* the line, start_pos before end_pos, and the characters of the line from
\* start_pos up to end_pos are the reported word.
C11_ErrorPositions ==
    [][\A line_text \in Lines, raises \in BOOLEAN :
          (/\ last'.op = "spell_check_line"
           /\ last'.arg = line_text
           /\ spell_check_line(line_text, raises))
          => \A i \in DOMAIN last'.result :
                LET e == last'.result[i]
                IN  /\ 0 <= e.start_pos
                    /\ e.start_pos < e.end_pos
                    /\ e.end_pos <= Len(line_text)
                    /\ SubSeq(line_text, e.start_pos + 1, e.end_pos)
                           = e.word]_vars


\* C12: in a spellcheck response, of either handler, line index i is a key
\* of the errors map exactly when line i of the request is not blank and
\* its check found at least one error; no key maps to an empty list.
C12_ErrorKeys ==
    \A r \in {[lines |-> s_response.lines, errors |-> s_response.errors,
               found |-> s_response.found,
               answered |-> s_response.answered],
              [lines |-> l_s_response.lines, errors |-> l_s_response.errors,
               found |-> l_s_response.found,
               answered |-> l_s_response.answered]} :
        r.answered =>
            /\ \A i \in (0..(Len(r.lines) - 1)) \cup DOMAIN r.errors :
                  i \in DOMAIN r.errors
                  <=> /\ i < Len(r.lines)
                      /\ strip(r.lines[i + 1]) # <<>>
                      /\ i \in DOMAIN r.found
                      /\ r.found[i] > 0
            /\ \A i \in DOMAIN r.errors : r.errors[i] # <<>>

\* a backend response to a request of a correct line and a misspelt one
C12_Witness ==
    /\ s_response.answered
    /\ s_response.lines = <<s_the, s_the_Teh>>
    /\ s_response.checked = {0, 1}
    /\ DOMAIN s_response.errors = {1}

\* C13: lines_checked of a successful spellcheck response, of either
\* handler, is the number of request lines that are not blank after
\* trimming; blank lines are not counted.
C13_LinesChecked ==
    \A r \in {[lines |-> s_response.lines,
               lines_checked |-> s_response.lines_checked,
               answered |-> s_response.answered /\ s_response.success],
              [lines |-> l_s_response.lines,
               lines_checked |-> l_s_response.lines_checked,
               answered |-> l_s_response.answered
                            /\ l_s_response.success]} :
        r.answered =>
            r.lines_checked =
                Cardinality({i \in DOMAIN r.lines : strip(r.lines[i]) # <<>>})

\* C14: engine_used of a spellcheck response names the engine that
\* produced the results of that request, also when another engine was
\* requested.
C14_EngineUsed ==
    /\ (s_response.answered /\ s_response.checked # {})
           => s_response.engine_used = s_response.checked_by
    /\ (l_s_response.answered /\ l_s_response.produced_by # {})
           => l_s_response.produced_by = {l_s_response.engine_used}

\* C15: a backend spellcheck request with a line to check is checked by
\* the requested engine when that engine is a provider type whose instance
\* for the language is available, and otherwise by the best available
\* provider, whenever there is one.
C15_ProviderResolution ==
    [][\A lines \in LineLists, engine \in RequestEngines,
          language \in RequestLanguages :
          (/\ \E i \in DOMAIN lines : strip(lines[i]) # <<>>
           /\ spellcheck_request(lines, engine, language, FALSE))
          => LET t == SpellCheckerType_of(lower(engine))
                 named == /\ t # "none"
                          /\ <<t, language>> \in DOMAIN instances
                          /\ instances[<<t, language>>].available
                 best == get_best_checker(instances, initialized_providers,
                                          language).key[1]
                 expected == IF named THEN t ELSE best
             IN  expected # "none"
                 => s_response'.checked_by = provider_name(expected)]_vars

\* C16: when no provider is available, a backend spellcheck request with a
\* line that is not blank is answered success=false with an error message
\* and an empty errors map.
C16_NoProviderAnswered ==
    [][\A lines \in LineLists, engine \in RequestEngines,
          language \in RequestLanguages, raises \in BOOLEAN :
          (/\ \A k \in DOMAIN instances : ~instances[k].available
           /\ \E i \in DOMAIN lines : strip(lines[i]) # <<>>
           /\ spellcheck_request(lines, engine, language, raises))
          => /\ ~s_response'.success
             /\ s_response'.error_message
             /\ s_response'.errors = NoErrors]_vars

C18_BestChecker ==
    [][\A t \in Range(SpellCheckerType), language \in Languages :
          (/\ d_last'.operation = "get_best_checker"
           /\ d_last'.language = language
           /\ factory_call("get_best_checker", t, language))
          => LET available ==
                     {a \in Range(SpellCheckerType) :
                         /\ <<a, language>> \in DOMAIN instances
                         /\ instances[<<a, language>>].available}
                 first == {a \in available :
                              \A b \in available :
                                 \E i, j \in DOMAIN priority_order :
                                    /\ priority_order[i] = a
                                    /\ priority_order[j] = b
                                    /\ i <= j}
             IN  /\ d_last'.checker = "none" <=> available = {}
                 /\ d_last'.checker # "none"
                       => /\ d_last'.checker \in first
                          /\ instances'[<<d_last'.checker, language>>]
                                 .available]_vars

\* C19: a provider's check_text returns for every text, and returns no
\* errors when the provider is not available or its engine throws.
C19_CheckNeverRaises ==
    [][\A t \in Range(SpellCheckerType), language \in Languages,
          text \in {s_the, s_the_Teh}, raises \in BOOLEAN :
          (/\ d_last'.operation = "check_text"
           /\ d_last'.word = text
           /\ provider_check_text(t, language, text, raises))
          => /\ d_last'.success
             /\ (\/ raises
                 \/ <<t, language>> \notin DOMAIN instances
                 \/ ~instances[<<t, language>>].available)
                   => d_last'.result]_vars

\* C20: in both routers, subscribe(ws, topics) makes the topic set of ws
\* the union of the set it held and topics, unsubscribe(ws, topics) removes
\* from it exactly the topics named, and neither changes the topic set of
\* another connection.  A connection without an entry holds no topic.
C20_SubscribeUnion ==
    [][LET held == [w \in Connections |->
                       IF w \in DOMAIN subscriptions
                       THEN subscriptions[w] ELSE {}]
           held_after == [w \in Connections |->
                             IF w \in DOMAIN subscriptions'
                             THEN subscriptions'[w] ELSE {}]
           l_held == [w \in Connections |->
                         IF w \in DOMAIN l_subscriptions
                         THEN l_subscriptions[w] ELSE {}]
           l_held_after == [w \in Connections |->
                               IF w \in DOMAIN l_subscriptions'
                               THEN l_subscriptions'[w] ELSE {}]
       IN  \A ws \in Connections, topics \in SUBSET Topics :
              /\ subscribe(ws, topics)
                    => held_after =
                           [held EXCEPT ![ws] = held[ws] \cup topics]
              /\ unsubscribe(ws, topics)
                    => held_after = [held EXCEPT ![ws] = held[ws] \ topics]
              /\ l_subscribe(ws, topics)
                    => l_held_after =
                           [l_held EXCEPT ![ws] = l_held[ws] \cup topics]
              /\ l_unsubscribe(ws, topics)
                    => l_held_after =
                           [l_held EXCEPT ![ws] = l_held[ws] \ topics]]_vars

\* both routers hold different topics for the two connections
C20_Witness ==
    /\ DOMAIN subscriptions = Connections
    /\ DOMAIN l_subscriptions = Connections
    /\ subscriptions["ws1"] = {"spellcheck_request"}
    /\ subscriptions["ws2"] = {"dictionary_request"}
    /\ l_subscriptions["ws1"] = {"dictionary_request"}
    /\ l_subscriptions["ws2"] = Topics

\* C21: disconnect(ws) removes ws from the connected set and deletes its
\* subscription entry, leaving every other connection as it was; for a
\* connection the router does not know (never connected, or disconnected
\* before) it changes nothing.  The root-level router keeps no connected
\* set: its disconnect deletes the subscription entry alone.
C21_DisconnectRemoves ==
    [][\A ws \in Connections :
          /\ disconnect(ws)
                => /\ websockets' = websockets \ {ws}
                   /\ ws \notin DOMAIN subscriptions'
                   /\ DOMAIN subscriptions' = DOMAIN subscriptions \ {ws}
                   /\ \A w \in DOMAIN subscriptions' :
                         subscriptions'[w] = subscriptions[w]
                   /\ (ws \notin websockets /\ ws \notin DOMAIN subscriptions)
                         => UNCHANGED <<websockets, subscriptions>>
          /\ l_disconnect(ws)
                => /\ DOMAIN l_subscriptions' = DOMAIN l_subscriptions \ {ws}
                   /\ \A w \in DOMAIN l_subscriptions' :
                         l_subscriptions'[w] = l_subscriptions[w]
                   /\ ws \notin DOMAIN l_subscriptions
                         => UNCHANGED l_subscriptions]_vars

\* one connection is gone from both routers while the other one is still
\* connected and holds its topics
C21_Witness ==
    /\ websockets = {"ws2"}
    /\ DOMAIN subscriptions = {"ws2"}
    /\ subscriptions["ws2"] = Topics
    /\ DOMAIN l_subscriptions = {"ws2"}
    /\ l_subscriptions["ws2"] = {"spellcheck_request"}

\* C22: connect(ws) for a connection that is already connected leaves the
\* connected set and the topic set of ws as they were.
C22_ConnectIdempotent ==
    [][\A ws \in Connections :
          (ws \in websockets /\ ws \in DOMAIN subscriptions /\ connect(ws))
              => /\ websockets' = websockets
                 /\ subscriptions'[ws] = subscriptions[ws]]_vars

\* C23: the handler table binds a key to one handler.  register_handler(h)
\* binds the key of h to h, replacing the handler bound before, and leaves
\* the bindings of the other keys as they were; route_message for a bound
\* key runs the handler bound at that moment, which is the one registered
\* last for the key, and no other.
C23_LastRegistrationWins ==
    [][/\ \A h \in HandlerIds :
             register_handler(h)
                => /\ DOMAIN handlers' =
                         DOMAIN handlers \cup {handler_message_key(h)}
                   /\ handlers'[handler_message_key(h)] = h
                   /\ \A k \in DOMAIN handlers \ {handler_message_key(h)} :
                         handlers'[k] = handlers[k]
       /\ \A m \in Messages, ws \in Connections, o \in Outcomes :
             (m.message_key \in DOMAIN handlers /\ route_message(m, ws, o))
                => /\ invoked' = handlers[m.message_key]
                   /\ handlers' = handlers
                   /\ response'.source \in
                         {handlers[m.message_key], "handle_message", "router"}
      ]_vars

\* h1 was dispatched to, was then replaced by h2 under the same key, and the
\* other key is still bound to h3
C23_Witness ==
    /\ DOMAIN handlers = Keys
    /\ handlers["spellcheck_request"] = "h2"
    /\ handlers["dictionary_request"] = "h3"
    /\ invoked = "h1"

C25_HealthStatus ==
    [][/\ \A detailed \in BOOLEAN :
             health_request(NoComponent, detailed)
                => LET available ==
                           {t \in Range(SpellCheckerType) :
                               \E k \in DOMAIN instances :
                                   k[1] = t /\ instances[k].available}
                   IN  h_response'.status =
                           IF available = {} THEN "unhealthy"
                           ELSE IF available # Range(SpellCheckerType)
                           THEN "degraded"
                           ELSE "healthy"
       /\ \A include_stats \in BOOLEAN :
             l_health_check(include_stats)
                => h_response'.status =
                       IF HUNSPELL_AVAILABLE THEN "healthy" ELSE "degraded"
      ]_vars

\* C26: a malformed or incomplete frame does not close its connection.
\* When a registered connection sends a frame that is not JSON, is not a
\* JSON object, lacks its message_key or type, or lacks a field its
\* request requires, the frame is answered, and afterwards the receive loop
\* of the connection still runs and the connection is still registered with
\* the connection manager and the router, so that its next frame is
\* received and processed.
C26_MalformedKeepsConnection ==
    [][/\ \A ws \in Connections, frame \in Frames :
             (/\ ws \in accepted \cap active_connections \cap websockets
              /\ \/ frame.kind \in {"not_json", "not_object", "unknown"}
                 \/ /\ frame.kind = "eda"
                    /\ \/ frame.message.message_key = NoKey
                       \/ ~schema_valid(frame.message)
              /\ e_receive(ws, frame))
                => /\ e_last'.delivered
                   /\ ws \in accepted'
                   /\ ws \in active_connections'
                   /\ ws \in websockets'
       /\ \A ws \in Connections, kind \in l_FrameKinds, complete \in BOOLEAN :
             (/\ ws \in l_accepted
              /\ kind \in {"not_json", "not_object", "no_type"} \/ ~complete
              /\ l_e_receive(ws, kind, complete))
                => /\ ws \in l_accepted'
                   /\ ws \in l_active_connections'
      ]_vars

\* C27: a legacy frame {type: "spell_check_request"} is answered with the
\* success flag and the errors map that the canonical frame
\* {message_key: "spellcheck_request"} with the same "lines" and "language"
\* members is answered with.
C27_LegacyEquivalent ==
    [][\A lines \in FrameLines, language \in {"en", NoLanguage},
          raises \in BOOLEAN :
          handle_legacy_spell_check(lines, language, raises)
             => LET canonical ==
                        spellcheck_message(instances, initialized_providers,
                                           lines, language, raises)
                IN  /\ f_response'.success = canonical.success
                    /\ f_response'.errors = canonical.errors]_vars

C28_NoErrorAfterAdd ==
    \A t \in Tasks :
       tasks[t].pc = "returned"
          => \A w \in TaskWords :
                lower(w) \in tasks[t].known => ~flags(tasks[t].result, w)

\* C29: two spell_check_line calls for the same line and engine that were
\* in flight together and both missed the cache insert rows with the same
\* error list, whatever additions and removals interleave with them.
C29_ConcurrentWritesAgree ==
    \A t \in Tasks, u \in Tasks :
       (/\ u \in tasks[t].overlapped
        /\ tasks[t].pc = "returned" /\ tasks[u].pc = "returned"
        /\ tasks[t].stored # NoErrorsJson
        /\ tasks[u].stored # NoErrorsJson
        /\ tasks[t].line_text = tasks[u].line_text
        /\ tasks[t].engine = tasks[u].engine)
          => tasks[t].stored = tasks[u].stored

\* C31: get_status() returns one entry for each provider type, with the
\* availability of its instance and its initialization flag, and leaves
\* self._instances and self._initialized_providers as they were.
C31_StatusOnlyReads ==
    [][\A t \in {"hunspell"}, language \in Languages :
         (/\ d_last'.operation = "get_status"
          /\ factory_call("get_status", t, language))
            => /\ {e.type : e \in d_last'.status} = Range(SpellCheckerType)
               /\ Cardinality(d_last'.status) = Len(SpellCheckerType)
               /\ \A e \in d_last'.status :
                     e.initialized =
                        (/\ e.type \in DOMAIN initialized_providers
                         /\ initialized_providers[e.type])
               /\ initialized_providers' = initialized_providers
               /\ instances' = instances
      ]_vars

\* C32: the error an engine reports for a word carries at most 15
\* suggestions, however many candidates the library returns.
C32_AtMostFifteen ==
    x_last.op = "check_sentence"
        => Len(x_last.suggestions) <= MaxSuggestions

\* C33: for a cursor within 0..len(current_text) the text before the
\* cursor is current_text[:cursor] and the text after it
\* current_text[cursor:]; for every other cursor, negative ones included,
\* the text before it is the whole current_text and the text after it is
\* empty.
C33_CursorClamped ==
    x_last.op = "predict_next_tokens" =>
       LET current_text == x_last.current_text
           cursor == x_last.cursor
       IN  IF cursor \in 0..Len(current_text)
           THEN /\ x_last.text_before_cursor =
                      SubSeq(current_text, 1, cursor)
                /\ x_last.text_after_cursor =
                      SubSeq(current_text, cursor + 1, Len(current_text))
           ELSE /\ x_last.text_before_cursor = current_text
                /\ x_last.text_after_cursor = <<>>

\* C34: a connection that never called subscribe is open: each message it
\* routes with a registered message_key reaches the handler of that key,
\* whatever it routed before.
C34_OpenWithoutSubscribe ==
    [][\A m \in Messages, ws \in Connections, o \in Outcomes :
         (/\ l_request' = m
          /\ m.message_key \in DOMAIN l_handlers
          /\ l_route_message(m, ws, o))
            => l_invoked' = l_handlers[m.message_key]
      ]_vars

\* C35: get_engine calls for one name, in whatever order the event loop
\* runs them, initialize at most one engine with success, and every call
\* answered with an engine gets that one; a call whose initialize() fails
\* caches nothing, so the next call for the name runs initialize() again.
C35_OneEnginePerName ==
    [][\A engine_name \in EngineNames, ok \in BOOLEAN :
         (/\ g_last'.engine_name = engine_name
          /\ engine_name \in EngineClasses
          /\ get_engine(engine_name, ok))
            => /\ Cardinality({e \in engines_initialized' :
                                  e[1] = engine_name}) <= 1
               /\ g_last'.returned # NoEngineObject
                     => g_last'.returned \in engines_initialized'
               /\ (/\ g_last.engine_name = engine_name
                   /\ g_last.returned # NoEngineObject)
                     => g_last'.returned = g_last.returned
               /\ (/\ g_last.engine_name = engine_name
                   /\ g_last.initialized
                   /\ g_last.returned = NoEngineObject)
                     => /\ g_last'.initialized
                        /\ engine_name \notin DOMAIN initialized_engines
      ]_vars

\* a call for hunspell failed to initialize, the next one initialized the
\* second engine object, and the call after that was answered with it
\* without initializing anything
C35_Witness ==
    /\ g_last.engine_name = "hunspell"
    /\ ~g_last.initialized
    /\ g_last.returned = <<"hunspell", 2>>
    /\ engines_created["hunspell"] = 2
    /\ engines_initialized = {<<"hunspell", 2>>}

\* C36: in the backend router every connection that has a subscription
\* entry is in the connected set; a subscribe or unsubscribe for a
\* connection that was disconnected brings back no entry for it.
C36_SubscribedAreConnected == DOMAIN subscriptions \subseteq websockets

\* C37: the connections of the manager's active_connections are those of
\* the router's connected set, after any connects, disconnects and failed
\* sends or broadcasts.
C37_ManagerAgreesWithRouter == active_connections = websockets

\* C38: a broadcast that waits in a send while other tasks connect,
\* subscribe, unsubscribe or disconnect goes on to its end: it raises no
\* error, and when it ends the connections whose send failed are gone from
\* the router.
C38_BroadcastCompletes ==
    [][\A fails \in BOOLEAN :
         (b_task.pc = "sending" /\ resume_broadcast(fails))
            => /\ b_task'.pc # "raised"
               /\ b_task'.pc = "done"
                     => \A ws \in b_task'.disconnected :
                           /\ ws \notin websockets'
                           /\ ws \notin DOMAIN subscriptions'
      ]_vars

\* C39: whenever the message loop of a connection of the main.py endpoint
\* has ended, by a client disconnect or by an exception raised while a
\* message was handled, the connection is no longer in
\* manager.active_connections: every registered connection has a running
\* loop.
C39_EndedLoopsUnregistered == l_active_connections \subseteq l_accepted

\* C40: on one connection of the backend endpoint the requests are handled
\* one at a time in arrival order: a round of the receive loop that takes a
\* frame other than subscribe and unsubscribe has sent the response to that
\* frame when it ends, before the next frame of the connection is received,
\* so every request is answered once and the answers leave in the order of
\* the requests.
C40_AnsweredBeforeNext ==
    [][\A ws \in Connections, frame \in Frames :
          (/\ e_last'.ws = ws
           /\ e_last'.kind = frame.kind
           /\ frame.kind \notin {"subscribe", "unsubscribe"}
           /\ e_receive(ws, frame))
             => /\ e_last'.answer # "none"
                /\ e_last'.delivered
      ]_vars

====
